---------------------------- MODULE Spec2Model ----------------------------
(***************************************************************************)
(* A model of the h_browser backend: the HLS byte-range playlist planner   *)
(* (routes/api.py, stream_playlist_m3u8) and the library synchronizer with *)
(* its catalog store (scanner.py, services/media_service.py, models.py),   *)
(* and the sidecar metadata extractor (services/metadata.py).              *)
(***************************************************************************)
EXTENDS Integers, Sequences, FiniteSets, TLC

VARIABLES
    \* ---- segment planner (stream_playlist_m3u8) ----
    size,               \* file_path.stat().st_size
    HLS_SEGMENT_BYTES,  \* config.HLS_SEGMENT_BYTES as configured
    segment_bytes,      \* the effective segment length
    offset,             \* the loop variable
    lines,              \* the playlist lines built so far
    ppc,                \* position in the handler: "start" | "loop" | "done"
    \* ---- catalog store and its sessions ----
    db,                 \* the committed catalog (media.db)
    txn,                \* the catalog as seen inside the open write transaction
    writer,             \* the session that holds the write transaction
    sess,               \* per session: the operation it runs and its ORM state
    disk,               \* per sidecar file: its genre and tag elements
    clock,              \* operations started so far; also the wall clock
    \* ---- sidecar metadata extractor (services/metadata.py) ----
    xml_root,           \* the child elements of the document's root, in order
    meta,               \* the VideoMetadata record being filled
    mpc,                \* position: "start" | "parsed"
    files,              \* the files that exist in the sidecar's directory
    art,                \* what each artwork resolver returned, once called
    wb,                 \* the lists to write back and the number of write-backs done
    probe,              \* what the external analyzer does when it is run
    avail,              \* what check_ffprobe_available returned, once called
    dur                 \* what get_duration returned, once called

plannerVars == <<size, HLS_SEGMENT_BYTES, segment_bytes, offset, lines, ppc>>

syncVars == <<db, txn, writer, sess, disk, clock>>

artVars == <<xml_root, meta, mpc, files, art, wb>>

probeVars == <<probe, avail, dur>>

vars == <<size, HLS_SEGMENT_BYTES, segment_bytes, offset, lines, ppc,
          db, txn, writer, sess, disk, clock, xml_root, meta, mpc, files, art, wb,
          probe, avail, dur>>

\* What the steps of one part of the program leave alone
notPlanner == <<syncVars, artVars, probeVars>>
notSync == <<plannerVars, artVars, probeVars>>
notArt == <<plannerVars, syncVars, probeVars>>
notProbe == <<plannerVars, syncVars, artVars>>

Min(a, b) == IF a <= b THEN a ELSE b

(***************************************************************************)
(* The library on disk                                                     *)
(***************************************************************************)

NULL == "NULL"

\* Operations started in one behaviour
MaxOps == 3

Sessions == {"s1", "s2"}
NoSession == "none"

\* The two vocabulary tables (models.Genre, models.Tag) and their link tables
Kinds == {"genre", "tag"}

\* Directories that exist
ExistingRoots == {"r1", "r2", "r4", "r5"}

\* The media_root arguments explored: the existing roots, a root that does
\* not exist ("r3"), a list of two roots (both existing, or the first one
\* missing), and None (the default)
RootList == "[r1, r2]"
MissingRootList == "[r3, r1]"
RootLists == {RootList, MissingRootList}
RootInputs == {"r1", "r2", "r3", "r4", "r5", NULL} \cup RootLists

\* The sidecar documents on disk.  stem is Path.stem; parses tells whether
\* the file is well-formed XML ("r4/B.nfo" is not); title and plot are the
\* text of <title> and <plot> (NULL: no such element); video is the
\* co-located {code}.mp4 / {code}.ts (NULL: none); genres and tags are the
\* texts of the <genre> and <tag> elements in document order ("r5/A.nfo"
\* lists the same genre twice).
DocInfo ==
    ( "r1/movie.nfo" :>
        [stem |-> "movie", parses |-> TRUE, title |-> "Template", plot |-> NULL,
         video |-> NULL, video_type |-> NULL,
         genres |-> <<"g1">>, tags |-> <<>>] ) @@
    ( "r1/A.nfo" :>
        [stem |-> "A", parses |-> TRUE, title |-> "TA", plot |-> "PA",
         video |-> "r1/A.mp4", video_type |-> "mp4",
         genres |-> <<"g1", " g2 ">>, tags |-> <<"t1">>] ) @@
    ( "r1/sub/A.nfo" :>
        [stem |-> "A", parses |-> TRUE, title |-> "TA-sub", plot |-> NULL,
         video |-> NULL, video_type |-> NULL,
         genres |-> <<"g2">>, tags |-> <<>>] ) @@
    ( "r1/B.nfo" :>
        [stem |-> "B", parses |-> TRUE, title |-> "TB", plot |-> NULL,
         video |-> NULL, video_type |-> NULL,
         genres |-> <<"g1">>, tags |-> <<>>] ) @@
    ( "r2/Sample.nfo" :>
        [stem |-> "Sample", parses |-> TRUE, title |-> "Template", plot |-> NULL,
         video |-> NULL, video_type |-> NULL,
         genres |-> <<>>, tags |-> <<"t1">>] ) @@
    ( "r2/A.nfo" :>
        [stem |-> "A", parses |-> TRUE, title |-> NULL, plot |-> "",
         video |-> "r2/A.ts", video_type |-> "ts",
         genres |-> <<"g2", "  ">>, tags |-> <<"t2">>] ) @@
    ( "r4/B.nfo" :>
        [stem |-> "B", parses |-> FALSE, title |-> NULL, plot |-> NULL,
         video |-> NULL, video_type |-> NULL,
         genres |-> <<>>, tags |-> <<>>] ) @@
    ( "r4/A.nfo" :>
        [stem |-> "A", parses |-> TRUE, title |-> "TA", plot |-> NULL,
         video |-> NULL, video_type |-> NULL,
         genres |-> <<"g1">>, tags |-> <<>>] ) @@
    ( "r5/A.nfo" :>
        [stem |-> "A", parses |-> TRUE, title |-> "TA", plot |-> NULL,
         video |-> NULL, video_type |-> NULL,
         genres |-> <<"g3", "g3">>, tags |-> <<>>] )

Docs == DOMAIN DocInfo

\* os.walk(media_root): the .nfo files of the root directory, then those of
\* its subdirectories, in listing order
WalkNfo(root) ==
    CASE root = "r1" -> <<"r1/movie.nfo", "r1/A.nfo", "r1/sub/A.nfo", "r1/B.nfo">>
      [] root = "r2" -> <<"r2/Sample.nfo", "r2/A.nfo">>
      [] root = "r4" -> <<"r4/B.nfo", "r4/A.nfo">>
      [] root = "r5" -> <<"r5/A.nfo">>
      [] OTHER -> <<>>

\* str.lower() on the stems that occur
Lower(stem) ==
    CASE stem = "Sample" -> "sample"
      [] stem = "A" -> "a"
      [] stem = "B" -> "b"
      [] OTHER -> stem

\* str.strip() on the names that occur
Strip(name) ==
    CASE name = " g2 " -> "g2"
      [] name = "  " -> ""
      [] name = " thumb.jpg " -> "thumb.jpg"
      [] name = "   " -> ""
      [] name = "\n  " -> ""
      [] name = "\n        " -> ""
      [] OTHER -> name

_TEMPLATE_NFO_NAMES ==
    {"movie", "template", "sample", "example", "test", "default", "blank"}

_is_template_nfo(doc) == Lower(DocInfo[doc].stem) \in _TEMPLATE_NFO_NAMES

Range(seq) == {seq[i] : i \in 1..Len(seq)}

\* A mutant of Truthy: the value is assigned whatever it is.
TruthyAlways(v) == TRUE

\* Python truthiness of an Optional[str]
Truthy(v) == v # NULL /\ v # ""

\* stat() of the media file if there is one, else of the sidecar
StatTarget(doc) ==
    IF DocInfo[doc].video # NULL THEN DocInfo[doc].video ELSE doc

\* stat().st_size and stat().st_mtime of the files that are stat'ed
StatInfo ==
    ( "r1/A.mp4"     :> [size |-> "size(r1/A.mp4)", mtime |-> "mtime(r1/A.mp4)"] ) @@
    ( "r1/sub/A.nfo" :> [size |-> "size(r1/sub/A.nfo)", mtime |-> "mtime(r1/sub/A.nfo)"] ) @@
    ( "r1/B.nfo"     :> [size |-> "size(r1/B.nfo)", mtime |-> "mtime(r1/B.nfo)"] ) @@
    ( "r2/A.ts"      :> [size |-> "size(r2/A.ts)", mtime |-> "mtime(r2/A.ts)"] ) @@
    ( "r4/B.nfo"     :> [size |-> "size(r4/B.nfo)", mtime |-> "mtime(r4/B.nfo)"] ) @@
    ( "r4/A.nfo"     :> [size |-> "size(r4/A.nfo)", mtime |-> "mtime(r4/A.nfo)"] ) @@
    ( "r5/A.nfo"     :> [size |-> "size(r5/A.nfo)", mtime |-> "mtime(r5/A.nfo)"] )

\* scanner._parse_nfo: (title, plot), or (None, None) when parsing fails
ScannerTitle(doc) == IF DocInfo[doc].parses THEN DocInfo[doc].title ELSE NULL
ScannerPlot(doc) == IF DocInfo[doc].parses THEN DocInfo[doc].plot ELSE NULL

\* metadata.parse_nfo, genres/tags: the stripped non-blank texts of the
\* elements in document order; the defaults when the document does not parse
ParsedNames(doc, kind) ==
    IF ~DocInfo[doc].parses THEN <<>>
    ELSE LET raw == IF kind = "genre" THEN disk[doc].genres ELSE disk[doc].tags
             stripped == [i \in 1..Len(raw) |-> Strip(raw[i])]
         IN  SelectSeq(stripped, LAMBDA n : n # "")

\* The loops over metadata.genres and metadata.tags: (kind, name) pairs,
\* genres first, blank names skipped, names stripped
NamesToLink(doc) ==
    LET g == ParsedNames(doc, "genre")
        t == ParsedNames(doc, "tag")
    IN  [i \in 1..Len(g) |-> <<"genre", Strip(g[i])>>] \o
        [i \in 1..Len(t) |-> <<"tag", Strip(t[i])>>]

(***************************************************************************)
(* The catalog store (models.py; SQLite through SQLAlchemy sessions with   *)
(* autoflush off).  One session at a time holds the write transaction;     *)
(* queries of the other sessions read the committed catalog.               *)
(***************************************************************************)

EmptyDb ==
    [items |-> {},
     vocab |-> [k \in Kinds |-> {}],
     links |-> [k \in Kinds |-> {}],
     favorites |-> {}]

\* A fresh MediaItem row: every column not given is NULL (0 for the time)
NewItemRow(id, code, nfo) ==
    [id |-> id, code |-> code, nfo_path |-> nfo, title |-> NULL,
     description |-> NULL, video_path |-> NULL, video_type |-> NULL,
     file_size |-> NULL, file_mtime |-> NULL, last_scanned_at |-> 0]

NoRow == NewItemRow(0, NULL, NULL)

\* INTEGER PRIMARY KEY without AUTOINCREMENT: the largest id plus one
NextId(rows) ==
    IF rows = {} THEN 1
    ELSE (CHOOSE m \in {r.id : r \in rows} : \A r \in rows : r.id <= m) + 1

\* models.MediaItem: code and nfo_path are nullable=False
NotNullOk(row) == row.code # NULL /\ row.nfo_path # NULL

\* A mutant of UniqueCodeOk: the unique index on code is missing.
UniqueCodeOkOff(st, code) == TRUE

\* models.MediaItem.code: unique=True
UniqueCodeOk(st, code) == ~\E r \in st.items : r.code = code

\* A mutant of UniqueNameOk: the unique index on name is missing.
UniqueNameOkOff(st, kind, name) == TRUE

\* models.Genre.name, models.Tag.name: unique=True
UniqueNameOk(st, kind, name) == ~\E r \in st.vocab[kind] : r.name = name

\* session.query(MediaItem).filter(MediaItem.code == code).one_or_none():
\* the id of the row, 0 for None
QueryItem(st, code) ==
    IF \E r \in st.items : r.code = code
    THEN (CHOOSE r \in st.items : r.code = code).id
    ELSE 0

ItemRow(st, id) == CHOOSE r \in st.items : r.id = id

\* session.query(Genre).filter(Genre.name == name).first(): the id, 0 for None
QueryVocab(st, kind, name) ==
    IF \E r \in st.vocab[kind] : r.name = name
    THEN (CHOOSE r \in st.vocab[kind] : r.name = name).id
    ELSE 0

\* The vocabulary rows an item is linked to (the item.genres / item.tags
\* collection as loaded from the link table)
LinkedTo(st, kind, id) == {l[2] : l \in {x \in st.links[kind] : x[1] = id}}

\* The catalog a session's statements see
View(s) == IF writer = s THEN txn ELSE db

\* A mutant of CanWrite: a session writes while another one holds the
\* write transaction.
CanWriteUnlocked(s) == TRUE

\* A statement that writes needs the write transaction
CanWrite(s) == writer \in {NoSession, s}

(***************************************************************************)
(* The unit of work of a session: per item id, the changed columns (upd),  *)
(* and per collection the rows it held when loaded (orig) and the list it  *)
(* holds now (cur).                                                        *)
(***************************************************************************)

NoPending == [i \in {} |-> NULL]

\* The rows of cur that were not in the loaded collection, in list order
Added(e, k) == SelectSeq(e.cur[k], LAMBDA v : v \notin e.orig[k])

\* A mutant of Removed: clearing a collection deletes no link row.
RemovedNothing(e, k) == {}

\* The loaded rows that are no longer in the list
Removed(e, k) == e.orig[k] \ Range(e.cur[k])

HasDuplicates(seq) == \E i, j \in 1..Len(seq) : i < j /\ seq[i] = seq[j]

HasPending(pend) ==
    \E i \in DOMAIN pend :
        \/ DOMAIN pend[i].upd # {}
        \/ \E k \in Kinds : Added(pend[i], k) # <<>> \/ Removed(pend[i], k) # {}

MergeRow(row, upd) ==
    [c \in DOMAIN row |-> IF c \in DOMAIN upd THEN upd[c] ELSE row[c]]

\* A mutant of UpdatedItems: the UPDATE has no WHERE clause.
UpdateWithoutWhere(items, pend) ==
    {IF DOMAIN pend # {}
     THEN MergeRow(r, pend[CHOOSE i \in DOMAIN pend : TRUE].upd)
     ELSE r : r \in items}

\* UPDATE media_items SET ... WHERE id = ...: only the rows with pending
\* changes are written
UpdatedItems(items, pend) ==
    {IF r.id \in DOMAIN pend THEN MergeRow(r, pend[r.id].upd) ELSE r : r \in items}

\* session.flush() of the pending changes: the UPDATEs of the changed
\* columns, the DELETEs of the removed link rows (each must match a row) and
\* the INSERTs of the added link rows (the pair is the primary key)
Flush(st, pend) ==
    LET ids == DOMAIN pend
        stale == \E i \in ids, k \in Kinds :
                    \E v \in Removed(pend[i], k) : <<i, v>> \notin st.links[k]
        clash == \E i \in ids, k \in Kinds :
                    \/ HasDuplicates(Added(pend[i], k))
                    \/ \E v \in Range(Added(pend[i], k)) : <<i, v>> \in st.links[k]
        gone  == \E i \in ids :
                    DOMAIN pend[i].upd # {} /\ ~\E r \in st.items : r.id = i
    IN  IF stale \/ gone THEN [ok |-> FALSE, err |-> "StaleDataError", st |-> st]
        ELSE IF clash THEN [ok |-> FALSE, err |-> "IntegrityError: PRIMARY KEY", st |-> st]
        ELSE [ok |-> TRUE, err |-> NULL,
              st |-> [st EXCEPT
                 !.items = UpdatedItems(st.items, pend),
                 !.links = [k \in Kinds |->
                    (st.links[k] \ UNION {{<<i, v>> : v \in Removed(pend[i], k)} : i \in ids})
                    \cup UNION {{<<i, v>> : v \in Range(Added(pend[i], k))} : i \in ids}]]]

(***************************************************************************)
(* Sessions and the operations they run                                    *)
(***************************************************************************)

NoResult == [kind |-> "none", count |-> 0, err |-> NULL]
CountResult(n) == [kind |-> "count", count |-> n, err |-> NULL]
ErrorResult(e) == [kind |-> "error", count |-> 0, err |-> e]
OkResult == [kind |-> "ok", count |-> 0, err |-> NULL]
NotFoundResult == [kind |-> "notfound", count |-> 0, err |-> NULL]

NoCur == [doc |-> NULL, code |-> NULL, id |-> 0]

\* What set_item_favorite holds before its commit: the value asked for and
\* the id of the Favorite row it found (0 for None)
NoFav == [want |-> FALSE, existing |-> 0]

\* History kept for comparing consecutive sync runs: the root, the result
\* and the committed catalog of the sync run that committed last on the
\* session, while no other operation has run on the session since, and the
\* number n of runs over that root that committed in a row
NoLast == [root |-> NULL, result |-> NoResult, db |-> EmptyDb, n |-> 0]

\* History kept for an edit: the genre and tag elements the item's sidecar
\* had when the edit began
NoSidecar == [genres |-> <<>>, tags |-> <<>>]

\* A session of get_session() on which nothing has run yet
IdleSession ==
    [op |-> "none", pc |-> "idle", root |-> NULL, todo |-> <<>>, seen |-> {},
     processed |-> 0, now |-> 0, result |-> NoResult, cur |-> NoCur,
     names |-> <<>>, pend |-> NoPending, created |-> {}, preLinked |-> {},
     fav |-> NoFav, last |-> NoLast, sidecar |-> NoSidecar]

\* The vocabulary rows that have at least one linked item
LinkedVocab(st) == UNION {{<<k, l[2]>> : l \in st.links[k]} : k \in Kinds}

SyncInit ==
    /\ db = EmptyDb
    /\ txn = EmptyDb
    /\ writer = NoSession
    /\ sess = [s \in Sessions |-> IdleSession]
    /\ disk = [d \in Docs |-> [genres |-> DocInfo[d].genres, tags |-> DocInfo[d].tags]]
    /\ clock = 0

\* A new operation may start: the bound on operations, and the second
\* session is used only while the first is busy
MayStart(s) ==
    /\ sess[s].pc = "idle"
    /\ clock < MaxOps
    /\ (s = "s2" => sess["s1"].pc # "idle")

\* A mutant of Fail: the work flushed so far stays in the store.
FailKeepsWork(s, e) ==
    /\ sess' = [sess EXCEPT ![s] =
                  [@ EXCEPT !.pc = "failed", !.result = ErrorResult(e),
                            !.pend = NoPending, !.names = <<>>, !.todo = <<>>,
                            !.cur = NoCur]]
    /\ IF writer = s
       THEN writer' = NoSession /\ db' = txn /\ UNCHANGED txn
       ELSE UNCHANGED <<writer, txn, db>>
    /\ UNCHANGED <<disk, clock>>

\* The exception leaves the operation; the session's transaction is rolled
\* back (by the failed flush, or by the owner's close())
Fail(s, e) ==
    /\ sess' = [sess EXCEPT ![s] =
                  [@ EXCEPT !.pc = "failed", !.result = ErrorResult(e),
                            !.pend = NoPending, !.names = <<>>, !.todo = <<>>,
                            !.cur = NoCur]]
    /\ IF writer = s
       THEN writer' = NoSession /\ txn' = db
       ELSE UNCHANGED <<writer, txn>>
    /\ UNCHANGED <<db, disk, clock>>

\* ---------------------------------------------------------------- scan_media

\* scanner.py 93-103: the root, the early return for a missing root, the
\* counters of the run
ScanStart(s, root) ==
    /\ UNCHANGED notSync
    /\ MayStart(s)
    /\ clock' = clock + 1
    /\ UNCHANGED <<db, txn, writer, disk>>
    /\ LET begun == [IdleSession EXCEPT !.op = "scan", !.root = root,
                                        !.now = clock + 1,
                                        !.last = sess[s].last,
                                        !.preLinked = LinkedVocab(db)]
       IN  IF root = NULL
           THEN \* config.MEDIA_ROOT: Config has no such attribute
                sess' = [sess EXCEPT ![s] =
                    [begun EXCEPT !.pc = "failed", !.result = ErrorResult("AttributeError")]]
           ELSE IF root \in RootLists
           THEN \* several roots: Path() of a list raises TypeError (as does
                \* the media_roots= keyword of tests/test_scanner.py 44)
                sess' = [sess EXCEPT ![s] =
                    [begun EXCEPT !.pc = "failed", !.result = ErrorResult("TypeError")]]
           ELSE IF root \notin ExistingRoots
           THEN sess' = [sess EXCEPT ![s] =
                    [begun EXCEPT !.pc = "done", !.result = CountResult(0)]]
           ELSE sess' = [sess EXCEPT ![s] =
                    [begun EXCEPT !.pc = "walk", !.todo = WalkNfo(root)]]

\* scanner.py 105-142: the next .nfo file; template and duplicate codes are
\* skipped; an accepted code is looked up in the catalog
ScanNext(s) ==
    /\ UNCHANGED notSync
    /\ sess[s].op = "scan"
    /\ sess[s].pc = "walk"
    /\ UNCHANGED <<db, txn, writer, disk, clock>>
    /\ IF sess[s].todo = <<>>
       THEN sess' = [sess EXCEPT ![s].pc = "commit"]
       ELSE LET doc == Head(sess[s].todo)
                code == DocInfo[doc].stem
            IN  IF _is_template_nfo(doc) \/ code \in sess[s].seen
                THEN sess' = [sess EXCEPT ![s].todo = Tail(@)]
                ELSE sess' = [sess EXCEPT ![s] =
                        [@ EXCEPT !.todo = Tail(@),
                                  !.seen = @ \cup {code},
                                  !.cur = [doc |-> doc, code |-> code,
                                           id |-> QueryItem(View(s), code)],
                                  !.pc = "upsert"]]

\* The MediaItem constructed for a code that is not in the catalog:
\* scanner.py 145 gives the code only, media_service.py 163 also nfo_path
ConstructedItem(op, id, code, doc) ==
    IF op = "scan" THEN NewItemRow(id, code, NULL) ELSE NewItemRow(id, code, doc)

\* A mutant of AssignedRow: an item that is in the catalog already is left
\* as it is.
AssignedNothing(row, doc, now) == row

\* scanner.py 149-161 / media_service.py 168-187: the values assigned to the
\* item; title and description only when the sidecar gives a non-empty one
AssignedRow(row, doc, now) ==
    [row EXCEPT
        !.nfo_path = doc,
        !.video_path = DocInfo[doc].video,
        !.video_type = DocInfo[doc].video_type,
        !.file_size = StatInfo[StatTarget(doc)].size,
        !.file_mtime = StatInfo[StatTarget(doc)].mtime,
        !.last_scanned_at = now,
        !.title = IF Truthy(ScannerTitle(doc)) THEN ScannerTitle(doc) ELSE @,
        !.description = IF Truthy(ScannerPlot(doc)) THEN ScannerPlot(doc) ELSE @]

\* The columns whose value changed: the UPDATE a later flush emits
ChangedColumns(row, new) ==
    [c \in {x \in DOMAIN row : new[x] # row[x]} |-> new[c]]

\* scanner.py 149-169 / media_service.py 168-192: assign the fields, clear
\* the genre and tag collections (which loads them), start the name loops
WithItem(rec, row, st) ==
    [rec EXCEPT
        !.cur = [@ EXCEPT !.id = row.id],
        !.pend = (row.id :> [upd  |-> ChangedColumns(row, AssignedRow(row, rec.cur.doc, rec.now)),
                             orig |-> [k \in Kinds |-> LinkedTo(st, k, row.id)],
                             cur  |-> [k \in Kinds |-> <<>>]]) @@ @,
        !.names = NamesToLink(rec.cur.doc),
        !.pc = "vocab"]

\* The unit of work after a successful flush: nothing is pending, and the
\* collections count as loaded with what they hold
Flushed(pend) ==
    [i \in DOMAIN pend |->
        [upd  |-> [c \in {} |-> NULL],
         orig |-> [k \in Kinds |-> Range(pend[i].cur[k])],
         cur  |-> pend[i].cur]]

\* scanner.py 144-169 / media_service.py 161-192: create the item if the
\* lookup found none (add + flush), then assign and clear
Upsert(s) ==
    /\ UNCHANGED notSync
    /\ sess[s].op \in {"scan", "sync_item"}
    /\ sess[s].pc = "upsert"
    /\ UNCHANGED <<db, disk, clock>>
    /\ IF sess[s].cur.id # 0
       THEN /\ sess' = [sess EXCEPT ![s] =
                          WithItem(@, ItemRow(View(s), @.cur.id), View(s))]
            /\ UNCHANGED <<txn, writer>>
       ELSE /\ CanWrite(s)
            /\ LET base == View(s)
                   row == ConstructedItem(sess[s].op, NextId(base.items),
                                          sess[s].cur.code, sess[s].cur.doc)
                   fl == Flush(base, sess[s].pend)
               IN  IF ~NotNullOk(row)
                   THEN Fail(s, "IntegrityError: NOT NULL")
                   ELSE IF ~UniqueCodeOk(base, row.code)
                   THEN Fail(s, "IntegrityError: UNIQUE")
                   ELSE IF ~fl.ok
                   THEN Fail(s, fl.err)
                   ELSE LET st == [fl.st EXCEPT !.items = @ \cup {row}]
                        IN  /\ txn' = st
                            /\ writer' = s
                            /\ sess' = [sess EXCEPT ![s] =
                                 WithItem([@ EXCEPT !.pend = Flushed(@)], row, st)]

\* A mutant of Appended: the row is not appended to the collection.
AppendedDropped(rec, kind, vid) == [rec EXCEPT !.names = Tail(@)]

\* item.genres.append(genre) / item.tags.append(tag): the row joins the
\* current item's collection and the loop goes on to the next name
Appended(rec, kind, vid) ==
    [rec EXCEPT !.pend[rec.cur.id].cur[kind] = Append(@, vid),
                !.names = Tail(@)]

\* scanner.py 172-185 with 68-71 / media_service.py 194-204 with 103-106:
\* the next name is looked up; a row that exists is appended
VocabStep(s) ==
    /\ UNCHANGED notSync
    /\ sess[s].op \in {"scan", "sync_item", "edit"}
    /\ sess[s].pc = "vocab"
    /\ UNCHANGED <<db, txn, writer, disk, clock>>
    /\ IF sess[s].names = <<>>
       THEN sess' = [sess EXCEPT ![s] =
              CASE @.op = "scan" ->
                     [@ EXCEPT !.processed = @ + 1, !.cur = NoCur, !.pc = "walk"]
                [] @.op = "sync_item" -> [@ EXCEPT !.pc = "commit"]
                [] OTHER -> [@ EXCEPT !.pc = "finish"]]
       ELSE LET kind == Head(sess[s].names)[1]
                name == Head(sess[s].names)[2]
                vid == QueryVocab(View(s), kind, name)
            IN  IF vid # 0
                THEN sess' = [sess EXCEPT ![s] = Appended(@, kind, vid)]
                ELSE sess' = [sess EXCEPT ![s].pc = "create"]

\* scanner.py 72-75 / media_service.py 107-110: the row is added and the
\* session flushed (with everything pending), then the row is appended.  A
\* failed flush rolls the transaction back; where the caller swallows the
\* exception (scanner.py 182) the session refuses every later statement, so
\* the operation fails all the same.
VocabCreate(s) ==
    /\ UNCHANGED notSync
    /\ sess[s].pc = "create"
    /\ CanWrite(s)
    /\ UNCHANGED <<db, disk, clock>>
    /\ LET kind == Head(sess[s].names)[1]
           name == Head(sess[s].names)[2]
           base == View(s)
           fl == Flush(base, sess[s].pend)
           vid == NextId(base.vocab[kind])
       IN  IF ~UniqueNameOk(base, kind, name)
           THEN Fail(s, "IntegrityError: UNIQUE")
           ELSE IF ~fl.ok
           THEN Fail(s, fl.err)
           ELSE /\ txn' = [fl.st EXCEPT !.vocab[kind] = @ \cup {[id |-> vid, name |-> name]}]
                /\ writer' = s
                /\ sess' = [sess EXCEPT ![s] =
                     Appended([@ EXCEPT !.pend = Flushed(@),
                                        !.created = @ \cup {<<kind, vid>>},
                                        !.pc = "vocab"], kind, vid)]

\* scanner.py 187-189, api.py 312: session.commit() flushes what is pending
\* and commits; the operation returns
Commit(s) ==
    /\ UNCHANGED notSync
    /\ sess[s].pc = "commit"
    /\ (HasPending(sess[s].pend) => CanWrite(s))
    /\ UNCHANGED <<disk, clock>>
    /\ LET base == View(s)
           fl == Flush(base, sess[s].pend)
       IN  IF ~fl.ok
           THEN Fail(s, fl.err)
           ELSE /\ IF writer = s \/ HasPending(sess[s].pend)
                   THEN db' = fl.st /\ txn' = fl.st /\ writer' = NoSession
                   ELSE UNCHANGED <<db, txn, writer>>
                /\ sess' = [sess EXCEPT ![s] =
                     [@ EXCEPT !.pc = "done", !.pend = NoPending, !.cur = NoCur,
                               !.result = IF sess[s].op = "scan"
                                          THEN CountResult(sess[s].processed)
                                          ELSE OkResult,
                               !.last = IF sess[s].op = "scan"
                                        THEN [root |-> sess[s].root,
                                              result |-> CountResult(sess[s].processed),
                                              db |-> db',
                                              n |-> IF sess[s].last.root = sess[s].root
                                                    THEN sess[s].last.n + 1 ELSE 1]
                                        ELSE NoLast]]

\* ------------------------------------------------------- set_item_favorite

\* The codes favorites are set for
FavoriteCodes == {"A", "Z"}

\* db.query(Favorite).filter(Favorite.media_item_id == id).first(): the id
\* of the row, 0 for None
QueryFavorite(st, id) ==
    IF \E f \in st.favorites : f.media_item_id = id
    THEN (CHOOSE f \in st.favorites : f.media_item_id = id).id
    ELSE 0

\* api.py 277-283: a row is added or deleted only when the state differs
\* from the one asked for
FavoriteWrites(fav) == fav.want = (fav.existing = 0)

\* api.py 271-276: the item and its Favorite row are looked up
FavoriteStart(s, code, favorite) ==
    /\ UNCHANGED notSync
    /\ MayStart(s)
    /\ clock' = clock + 1
    /\ UNCHANGED <<db, txn, writer, disk>>
    /\ LET id == QueryItem(View(s), code)
           begun == [IdleSession EXCEPT !.op = "favorite", !.now = clock + 1]
       IN  IF id = 0
           THEN sess' = [sess EXCEPT ![s] =
                    [begun EXCEPT !.pc = "done", !.result = NotFoundResult]]
           ELSE sess' = [sess EXCEPT ![s] =
                    [begun EXCEPT !.pc = "favorite",
                                  !.cur = [doc |-> NULL, code |-> code, id |-> id],
                                  !.fav = [want |-> favorite,
                                           existing |-> QueryFavorite(View(s), id)]]]

\* api.py 277-290: the Favorite row is added or deleted and the session is
\* committed; media_item_id is unique, and the DELETE must match its row
FavoriteCommit(s) ==
    /\ UNCHANGED notSync
    /\ sess[s].op = "favorite"
    /\ sess[s].pc = "favorite"
    /\ LET fav == sess[s].fav
           id == sess[s].cur.id
           finished == [sess EXCEPT ![s] =
                          [@ EXCEPT !.pc = "done", !.cur = NoCur, !.fav = NoFav,
                                    !.result = OkResult]]
       IN  IF ~FavoriteWrites(fav)
           THEN sess' = finished /\ UNCHANGED <<db, txn, writer, disk, clock>>
           ELSE /\ CanWrite(s)
                /\ IF fav.want
                   THEN IF \E f \in db.favorites : f.media_item_id = id
                        THEN Fail(s, "IntegrityError: UNIQUE")
                        ELSE LET row == [id |-> NextId(db.favorites), media_item_id |-> id]
                                 st == [db EXCEPT !.favorites = @ \cup {row}]
                             IN  /\ db' = st /\ txn' = st
                                 /\ sess' = finished
                                 /\ UNCHANGED <<writer, disk, clock>>
                   ELSE IF ~\E f \in db.favorites : f.id = fav.existing
                        THEN Fail(s, "StaleDataError")
                        ELSE LET st == [db EXCEPT !.favorites =
                                          {f \in @ : f.id # fav.existing}]
                             IN  /\ db' = st /\ txn' = st
                                 /\ sess' = finished
                                 /\ UNCHANGED <<writer, disk, clock>>

\* A statement that must write finds the database locked by the other
\* session until the busy timeout: OperationalError
BusyTimeout(s) ==
    /\ UNCHANGED notSync
    /\ writer \notin {NoSession, s}
    /\ \/ sess[s].pc = "upsert" /\ sess[s].cur.id = 0
       \/ sess[s].pc = "create"
       \/ sess[s].pc = "favorite" /\ FavoriteWrites(sess[s].fav)
       \/ sess[s].pc = "finish"
       \/ sess[s].pc = "commit" /\ HasPending(sess[s].pend)
    /\ Fail(s, "OperationalError")

\* The server process dies while operations are in flight: none of them
\* returns, and the open write transaction is never committed (SQLite rolls
\* it back)
Crash ==
    /\ UNCHANGED notSync
    /\ \E s \in Sessions : sess[s].pc \notin {"idle", "done", "failed"}
    /\ sess' = [s \in Sessions |->
                  IF sess[s].pc \in {"idle", "done", "failed"} THEN sess[s]
                  ELSE [sess[s] EXCEPT !.pc = "failed",
                                       !.result = ErrorResult("Crash"),
                                       !.pend = NoPending, !.names = <<>>,
                                       !.todo = <<>>, !.cur = NoCur]]
    /\ writer' = NoSession
    /\ txn' = db
    /\ UNCHANGED <<db, disk, clock>>

\* db.close(): the owner is done with the session
Close(s) ==
    /\ UNCHANGED notSync
    /\ sess[s].pc \in {"done", "failed"}
    /\ sess' = [sess EXCEPT ![s] = [IdleSession EXCEPT !.last = sess[s].last]]
    /\ UNCHANGED <<db, txn, writer, disk, clock>>

\* ------------------------------------------------------- sync_item_from_disk

\* media_service.py 341-361 and 155-159: the video file, the file
\* information, the metadata, and the lookup of the item by code; the
\* session's owner commits
SyncItemStart(s, doc) ==
    /\ UNCHANGED notSync
    /\ MayStart(s)
    /\ clock' = clock + 1
    /\ UNCHANGED <<db, txn, writer, disk>>
    /\ sess' = [sess EXCEPT ![s] =
         [IdleSession EXCEPT !.op = "sync_item", !.now = clock + 1,
                             !.preLinked = LinkedVocab(db),
                             !.cur = [doc |-> doc, code |-> DocInfo[doc].stem,
                                      id |-> QueryItem(View(s), DocInfo[doc].stem)],
                             !.pc = "upsert"]]

\* The sidecars sync_item_from_disk is called for
SyncItemDocs == {"r1/A.nfo", "r1/B.nfo", "r2/A.nfo", "r4/B.nfo"}

\* ------------------------------------------------------ patch_item_metadata

\* The request bodies explored: genres and tags as sent
EditInputs ==
    { [genres |-> <<>>, tags |-> <<>>],
      [genres |-> <<"g3", " g2 ">>, tags |-> <<"  ", "t1">>] }

\* The codes edits are requested for ("Z" is never catalogued)
EditCodes == {"A", "B", "Z"}

\* [x.strip() for x in xs if x and x.strip()]
StrippedNonBlank(xs) ==
    SelectSeq([i \in 1..Len(xs) |-> Strip(xs[i])], LAMBDA n : n # "")

\* metadata.update_nfo_genres_tags: the genre and tag elements are replaced
\* by the stripped non-blank names, in order
WrittenBack(genres, tags) ==
    [genres |-> StrippedNonBlank(genres), tags |-> StrippedNonBlank(tags)]

\* A mutant of SidecarWritable: every sidecar is taken as writable.
SidecarAlwaysWritable(doc) == TRUE

\* media_service.py 221-231: the item has a sidecar path, the file exists,
\* and update_nfo_genres_tags does not raise (the document parses)
SidecarWritable(doc) == doc # NULL /\ doc \in Docs /\ DocInfo[doc].parses

\* api.py 295-309 and media_service.py 219-236: the item is looked up, the
\* names are written back to its sidecar, the collections are cleared; None
\* (404) for an unknown code and for a sidecar that cannot be written
EditStart(s, code, input) ==
    /\ UNCHANGED notSync
    /\ MayStart(s)
    /\ clock' = clock + 1
    /\ UNCHANGED <<db, txn, writer>>
    /\ LET id == QueryItem(View(s), code)
           begun == [IdleSession EXCEPT !.op = "edit", !.now = clock + 1,
                                        !.preLinked = LinkedVocab(db)]
       IN  IF id = 0
           THEN /\ sess' = [sess EXCEPT ![s] =
                      [begun EXCEPT !.pc = "done", !.result = NotFoundResult,
                                    !.cur = [doc |-> NULL, code |-> code, id |-> 0]]]
                /\ UNCHANGED disk
           ELSE LET row == ItemRow(View(s), id)
                    genres == StrippedNonBlank(input.genres)
                    tags == StrippedNonBlank(input.tags)
                IN  IF ~SidecarWritable(row.nfo_path)
                    THEN /\ sess' = [sess EXCEPT ![s] =
                               [begun EXCEPT !.pc = "done", !.result = NotFoundResult,
                                             !.cur = [doc |-> row.nfo_path,
                                                      code |-> code, id |-> id]]]
                         /\ UNCHANGED disk
                    ELSE /\ disk' = [disk EXCEPT ![row.nfo_path] = WrittenBack(genres, tags)]
                         /\ sess' = [sess EXCEPT ![s] =
                              [begun EXCEPT
                                 !.cur = [doc |-> row.nfo_path, code |-> code, id |-> id],
                                 !.sidecar = disk[row.nfo_path],
                                 !.pend = id :> [upd  |-> [c \in {} |-> NULL],
                                                 orig |-> [k \in Kinds |-> LinkedTo(View(s), k, id)],
                                                 cur  |-> [k \in Kinds |-> <<>>]],
                                 !.names = [i \in 1..Len(genres) |-> <<"genre", genres[i]>>] \o
                                           [i \in 1..Len(tags) |-> <<"tag", tags[i]>>],
                                 !.pc = "vocab"]]

\* A mutant of WithoutOrphans: no vocabulary row is deleted.
OrphansKept(st) == st

\* DELETE FROM genres / tags WHERE NOT EXISTS (a link row)
WithoutOrphans(st) ==
    [st EXCEPT !.vocab = [k \in Kinds |->
        {r \in st.vocab[k] : \E l \in st.links[k] : l[2] = r.id}]]

\* media_service.py 241-251: flush, then delete the vocabulary rows that no
\* item is linked to
EditFinish(s) ==
    /\ UNCHANGED notSync
    /\ sess[s].op = "edit"
    /\ sess[s].pc = "finish"
    /\ CanWrite(s)
    /\ UNCHANGED <<db, disk, clock>>
    /\ LET fl == Flush(View(s), sess[s].pend)
       IN  IF ~fl.ok
           THEN Fail(s, fl.err)
           ELSE /\ txn' = WithoutOrphans(fl.st)
                /\ writer' = s
                /\ sess' = [sess EXCEPT ![s] =
                     [@ EXCEPT !.pend = Flushed(@), !.pc = "commit"]]

\* The steps of the operations running on the sessions in S
SessionSteps(S) ==
    \/ \E s \in S, root \in RootInputs : ScanStart(s, root)
    \/ \E s \in S : ScanNext(s)
    \/ \E s \in S : Upsert(s)
    \/ \E s \in S : VocabStep(s)
    \/ \E s \in S : VocabCreate(s)
    \/ \E s \in S : Commit(s)
    \/ \E s \in S : Close(s)
    \/ \E s \in S, doc \in SyncItemDocs : SyncItemStart(s, doc)
    \/ \E s \in S, code \in EditCodes, input \in EditInputs : EditStart(s, code, input)
    \/ \E s \in S : EditFinish(s)
    \/ \E s \in S, code \in FavoriteCodes, favorite \in BOOLEAN : FavoriteStart(s, code, favorite)
    \/ \E s \in S : FavoriteCommit(s)

\* Requests served concurrently, each on a session of its own
SyncNext ==
    \/ SessionSteps(Sessions)
    \/ \E s \in Sessions : BusyTimeout(s)
    \/ Crash

\* One operation at a time, each run to its end before the next starts
SeqNext == SessionSteps({"s1"})

(***************************************************************************)
(* The metadata extractor: artwork fields of parse_nfo                     *)
(***************************************************************************)

\* Elements of a document
MaxArtElems == 3

HttpsUrl == "https://example.com/x.jpg"
HttpUrl == "http://example.com/y.jpg"

\* A direct child of the root: its tag, its aspect and type attributes, its
\* text, and (for <fanart>) a nested <thumb> given by its text and by
\* whether that nested element has children of its own
NoNested == [text |-> NULL, leaf |-> TRUE]

Element(tag, aspect, type, text, nested) ==
    [tag |-> tag, aspect |-> aspect, type |-> type, text |-> text, nested |-> nested]

NoElement == Element(NULL, NULL, NULL, NULL, NoNested)

\* The artwork elements explored
ArtElements ==
    {Element("poster", NULL, NULL, t, NoNested) :
        t \in {"poster.jpg", "   ", HttpsUrl}}
    \cup {Element("thumb", a[1], a[2], t, NoNested) :
        a \in {<<NULL, NULL>>, <<"poster", NULL>>, <<NULL, "poster">>},
        t \in {"poster.jpg", " thumb.jpg ", "   ", HttpUrl}}
    \cup {Element("thumbnail", NULL, NULL, t, NoNested) :
        t \in {" thumb.jpg ", NULL, HttpsUrl}}
    \cup {Element("fanart", NULL, NULL, t, n) :
        t \in {"fanart.jpg", NULL},
        n \in {NoNested, [text |-> "nested.jpg", leaf |-> TRUE]}}
    \cup {Element("fanart", NULL, NULL, HttpUrl,
                  [text |-> "nested.jpg", leaf |-> FALSE])}

\* The documents explored: up to MaxArtElems artwork elements in any order
ArtDocs == UNION {[1..n -> ArtElements] : n \in 0..MaxArtElems}

\* str.startswith("http://") or str.startswith("https://")
StartsWithHttp(s) == s \in {HttpsUrl, HttpUrl}

\* metadata._text: the stripped text of the element, None when there is no
\* element or the text is blank
_text(el) ==
    IF el = NoElement \/ el.text = NULL THEN NULL
    ELSE IF Strip(el.text) = "" THEN NULL ELSE Strip(el.text)

\* A mutant of _is_local_path: a URL counts as a local path.
IsLocalPathAcceptsUrl(s) == s # NULL /\ Strip(s) # ""

\* metadata._is_local_path
_is_local_path(s) ==
    IF s = NULL \/ Strip(s) = "" THEN FALSE
    ELSE ~StartsWithHttp(Strip(s))

\* root.find(...): the first child that matches, None if there is none
Find(doc, Match(_)) ==
    IF \E i \in 1..Len(doc) : Match(doc[i])
    THEN doc[CHOOSE i \in 1..Len(doc) :
                Match(doc[i]) /\ \A j \in 1..(i-1) : ~Match(doc[j])]
    ELSE NoElement

\* root.findall(...): the children that match, in document order
FindAll(doc, Match(_)) == SelectSeq(doc, Match)

\* The first element of a sequence of elements whose text is a local path
FirstLocal(els) ==
    Find(els, LAMBDA e : e # NoElement /\ _is_local_path(_text(e)))

IsPosterMarked(el) == el.aspect = "poster" \/ el.type = "poster"

\* A mutant of ParsedPoster: any <thumb> may supply the poster.
ParsedPosterFromAnyThumb(doc) ==
    _text(FirstLocal(<< Find(doc, LAMBDA e : e.tag = "poster"),
                        Find(doc, LAMBDA e : e.tag = "thumb") >>))

\* metadata.py 136-146: <poster>, then the first <thumb aspect="poster">,
\* then the first <thumb type="poster">; the first of them with a local path
ParsedPoster(doc) ==
    _text(FirstLocal(<< Find(doc, LAMBDA e : e.tag = "poster"),
                        Find(doc, LAMBDA e : e.tag = "thumb" /\ e.aspect = "poster"),
                        Find(doc, LAMBDA e : e.tag = "thumb" /\ e.type = "poster") >>))

\* metadata.py 148-164: <thumbnail> if its text is a local path, else the
\* first <thumb> that is not marked as poster and has a local path
ParsedThumb(doc) ==
    LET thumbnail == Find(doc, LAMBDA e : e.tag = "thumbnail")
    IN  IF thumbnail # NoElement /\ _is_local_path(_text(thumbnail))
        THEN _text(thumbnail)
        ELSE _text(FirstLocal(FindAll(doc,
                 LAMBDA e : e.tag = "thumb" /\ ~IsPosterMarked(e))))

\* metadata.py 166-172: first = fanart.find("thumb") or fanart, where an
\* element without children is false; the text of first if it is a local path
ParsedFanart(doc) ==
    LET fanart == Find(doc, LAMBDA e : e.tag = "fanart")
    IN  IF fanart = NoElement THEN NULL
        ELSE LET t == IF fanart.nested # NoNested /\ ~fanart.nested.leaf
                      THEN _text(Element("thumb", NULL, NULL, fanart.nested.text, NoNested))
                      ELSE _text(fanart)
             IN  IF _is_local_path(t) THEN t ELSE NULL

\* VideoMetadata(): the artwork fields of the default record
NoMeta ==
    [poster_path |-> NULL, thumb |-> NULL, fanart_path |-> NULL,
     genres |-> <<>>, tags |-> <<>>]

\* metadata.py 117-124: the non-blank stripped texts of the children with
\* the tag, in document order
ParsedList(doc, tag_name) ==
    LET nodes == FindAll(doc, LAMBDA e : e.tag = tag_name)
        texts == [i \in 1..Len(nodes) |-> _text(nodes[i])]
    IN  SelectSeq(texts, Truthy)

\* metadata.parse_nfo: the artwork fields and the genre and tag lists
parse_nfo(doc) ==
    [poster_path |-> ParsedPoster(doc),
     thumb |-> ParsedThumb(doc),
     fanart_path |-> ParsedFanart(doc),
     genres |-> ParsedList(doc, "genre"),
     tags |-> ParsedList(doc, "tag")]

(***************************************************************************)
(* Genre/tag write-back (update_nfo_genres_tags) on the children of the    *)
(* root.                                                                   *)
(***************************************************************************)

\* Children of the root, names in the two lists, write-backs in a row
MaxWbElems == 3
MaxNames == 2
MaxWrites == 2

\* A child element <name>N</name> of an <actor>
ActorName == [text |-> "N", leaf |-> TRUE]

\* The children of the root in the documents written back
WbElements ==
    { Element("title", NULL, NULL, "T", NoNested),
      Element("genre", NULL, NULL, "g1", NoNested),
      Element("tag", NULL, NULL, "t1", NoNested),
      Element("thumb", "poster", NULL, "poster.jpg", NoNested),
      Element("actor", NULL, NULL, NULL, ActorName),
      Element("actor", NULL, NULL, "\n  ", ActorName) }

WbDocs == UNION {[1..n -> WbElements] : n \in 0..MaxWbElems}

SeqsUpTo(S, n) == UNION {[1..k -> S] : k \in 0..n}

\* The pairs of lists handed to the write-back
WbArgs ==
    { p \in SeqsUpTo({"g1", " g2 ", "  "}, MaxNames) \X SeqsUpTo({"t1", "  "}, MaxNames) :
        Len(p[1]) + Len(p[2]) <= MaxNames }

NoWb == [genres |-> <<>>, tags |-> <<>>, n |-> 0]

HasChildren(el) == el.nested # NoNested

\* The text ET.indent gives an element of the root that has children
ChildIndent == "\n        "

\* ET.indent on a child of the root: an element with children whose text is
\* absent or blank gets the indentation of its children as text
Indented(el) ==
    IF HasChildren(el) /\ (el.text = NULL \/ Strip(el.text) = "")
    THEN [el EXCEPT !.text = ChildIndent]
    ELSE el

\* ET.SubElement(root, tag) with the text set
SubElement(tag, text) == Element(tag, NULL, NULL, text, NoNested)

\* A mutant of update_nfo_genres_tags: the previous genre and tag children
\* are kept.
UpdateKeepsPrevious(doc, genres, tags) ==
    LET gs == StrippedNonBlank(genres)
        ts == StrippedNonBlank(tags)
        all == doc \o [i \in 1..Len(gs) |-> SubElement("genre", gs[i])]
                   \o [i \in 1..Len(ts) |-> SubElement("tag", ts[i])]
    IN  [i \in 1..Len(all) |-> Indented(all[i])]

\* metadata.update_nfo_genres_tags on a well-formed document: the genre and
\* tag children are removed, the stripped non-blank genres and then tags are
\* appended, and the tree is re-indented
update_nfo_genres_tags(doc, genres, tags) ==
    LET kept == SelectSeq(doc, LAMBDA e : e.tag # "genre" /\ e.tag # "tag")
        gs == StrippedNonBlank(genres)
        ts == StrippedNonBlank(tags)
        all == kept \o [i \in 1..Len(gs) |-> SubElement("genre", gs[i])]
                    \o [i \in 1..Len(ts) |-> SubElement("tag", ts[i])]
    IN  [i \in 1..Len(all) |-> Indented(all[i])]

(***************************************************************************)
(* Artwork file resolution (get_poster_path, get_fanart_path,              *)
(* get_thumb_path).  A file of the sidecar's directory is a pair: the code *)
(* it is prefixed with ("" for none) and the rest of its name.             *)
(***************************************************************************)

\* Elements of a document, and existing files, in the resolution runs
MaxResolveElems == 2
MaxFiles == 2

\* The code of the sidecar whose artwork is resolved
ArtCode == "A"

CodeFile(code, rest) == <<code, rest>>
DirFile(name) == <<"", name>>

\* A file named by an absolute path, and Path(c).is_absolute() on the
\* candidates that occur
AbsolutePath == "/art/cover.jpg"
AbsFile(path) == <<"/", path>>
is_absolute(c) == c = AbsolutePath

\* The artwork elements of the documents whose files are resolved
ResolveElements ==
    { Element("poster", NULL, NULL, "cover.jpg", NoNested),
      Element("poster", NULL, NULL, AbsolutePath, NoNested),
      Element("poster", NULL, NULL, HttpsUrl, NoNested),
      Element("poster", NULL, NULL, "   ", NoNested),
      Element("thumb", NULL, NULL, "still.jpg", NoNested),
      Element("thumb", NULL, NULL, HttpsUrl, NoNested),
      Element("thumb", "poster", NULL, HttpUrl, NoNested),
      Element("fanart", NULL, NULL, "bg.jpg", NoNested) }

ResolveDocs == UNION {[1..n -> ResolveElements] : n \in 0..MaxResolveElems}

\* The files that may exist next to the sidecar
FileUniverse ==
    { DirFile("cover.jpg"), DirFile("still.jpg"), DirFile("bg.jpg"),
      AbsFile(AbsolutePath),
      CodeFile(ArtCode, "-poster.jpg"), CodeFile(ArtCode, "-thumb.jpg"),
      CodeFile(ArtCode, ".jpg"), CodeFile(ArtCode, "-fanart.jpg"),
      DirFile("poster.jpg"), DirFile("thumb.jpg"), DirFile("fanart.jpg"),
      DirFile("folder.jpg") }

FileSets == {fs \in SUBSET FileUniverse : Cardinality(fs) <= MaxFiles}

_poster_fallback_names(code) ==
    << CodeFile(code, "-poster.jpg"), CodeFile(code, "-poster.png"),
       CodeFile(code, "-thumb.jpg"), CodeFile(code, "-thumb.png"),
       DirFile("poster.jpg"), DirFile("poster.png"), DirFile("poster.jpeg"),
       DirFile("poster.webp"),
       CodeFile(code, ".jpg"), CodeFile(code, ".png"),
       DirFile("thumb.jpg"), DirFile("folder.jpg") >>

_fanart_fallback_names(code) ==
    << CodeFile(code, "-fanart.jpg"), CodeFile(code, "-fanart.png"),
       DirFile("fanart.jpg"), DirFile("fanart.png"), DirFile("fanart.jpeg") >>

_thumb_fallback_names(code) ==
    << CodeFile(code, "-thumb.jpg"), CodeFile(code, "-thumb.png"),
       CodeFile(code, "-poster.jpg"), CodeFile(code, "-poster.png"),
       DirFile("thumb.jpg"), DirFile("poster.jpg"), DirFile("folder.jpg") >>

\* No file: the resolver's None
NoFile == DirFile(NULL)

\* A mutant of FirstExisting: the last existing name of the list is taken.
LastExisting(fs, names) ==
    IF \E i \in 1..Len(names) : names[i] \in fs
    THEN names[CHOOSE i \in 1..Len(names) :
                  names[i] \in fs /\ \A j \in (i+1)..Len(names) : names[j] \notin fs]
    ELSE NoFile

\* The first name of the list that exists, None if none does
FirstExisting(fs, names) ==
    IF \E i \in 1..Len(names) : names[i] \in fs
    THEN names[CHOOSE i \in 1..Len(names) :
                  names[i] \in fs /\ \A j \in 1..(i-1) : names[j] \notin fs]
    ELSE NoFile

\* Path(c) for an absolute c, nfo_dir / c otherwise
CandidateFile(c) == IF is_absolute(c) THEN AbsFile(c) ELSE DirFile(c)

\* A mutant of _resolve_art_path: the candidate is returned without a look
\* at the disk.
ResolveCandidateUnchecked(fs, candidate, fallback_names) ==
    IF candidate # NULL /\ candidate # ""
    THEN CandidateFile(Strip(candidate))
    ELSE FirstExisting(fs, fallback_names)

\* metadata._resolve_art_path: the candidate (absolute, or relative to the
\* sidecar's directory) if it is set and exists, else the first existing
\* fallback name
_resolve_art_path(fs, candidate, fallback_names) ==
    IF candidate # NULL /\ candidate # "" /\ CandidateFile(Strip(candidate)) \in fs
    THEN CandidateFile(Strip(candidate))
    ELSE FirstExisting(fs, fallback_names)

\* x or y on Optional[str]
Or(x, y) == IF Truthy(x) THEN x ELSE y

get_poster_path(fs, code, metadata) ==
    _resolve_art_path(fs, Or(metadata.poster_path, metadata.thumb),
                      _poster_fallback_names(code))

get_fanart_path(fs, code, metadata) ==
    _resolve_art_path(fs, metadata.fanart_path, _fanart_fallback_names(code))

get_thumb_path(fs, code, metadata) ==
    _resolve_art_path(fs, Or(metadata.thumb, metadata.poster_path),
                      _thumb_fallback_names(code))

\* A resolver that has not been called
NotCalled == DirFile("not called")

NoArt == [poster |-> NotCalled, fanart |-> NotCalled, thumb |-> NotCalled]

ArtQuiet ==
    /\ xml_root = <<>>
    /\ meta = NoMeta
    /\ mpc = "start"
    /\ files = {}
    /\ art = NoArt
    /\ wb = NoWb

(***************************************************************************)
(* The duration probe (ffprobe_util.py).  The external analyzer either     *)
(* makes subprocess.run raise, or exits with a return code and an output   *)
(* of lines; durations are whole seconds.                                  *)
(***************************************************************************)

\* Lines of analyzer output
MaxLines == 2

\* 86400 * 7 of ffprobe_util.py 69
SevenDays == 86400 * 7

\* A float, an output line, or a result: a kind and, for a number, its value
Num(v) == [kind |-> "num", v |-> v, exc |-> NULL]
Tok(k) == [kind |-> k, v |-> 0, exc |-> NULL]
Raised(e) == [kind |-> "raised", v |-> 0, exc |-> e]

NoneValue == Tok("None")
NotRun == Tok("not run")

\* The lines the analyzer may print: numbers around the limits of the
\* window, the float words, a word that is no float, a blank line
OutputLines ==
    {Num(v) : v \in {-1, 0, 1, SevenDays - 1, SevenDays, SevenDays + 1}}
        \cup {Tok("nan"), Tok("inf"), Tok("-inf"), Tok("N/A"), Tok("blank")}

\* What subprocess.run may raise
RunErrors == {"FileNotFoundError", "TimeoutExpired", "PermissionError", "RuntimeError"}

Outcome(raises, returncode, stdout) ==
    [raises |-> raises, returncode |-> returncode, stdout |-> stdout]

Outcomes ==
    {Outcome(e, 0, <<>>) : e \in RunErrors}
        \cup {Outcome(NULL, c, s) : c \in {0, 1}, s \in SeqsUpTo(OutputLines, MaxLines)}

\* ffprobe_util.check_ffprobe_available: every exception is caught
check_ffprobe_available(o) ==
    IF o.raises # NULL THEN "False"
    ELSE IF o.returncode = 0 THEN "True" ELSE "False"

\* str.strip() on the whole output: leading and trailing blank lines go
RECURSIVE DropLeadingBlank(_)
DropLeadingBlank(ls) ==
    IF ls # <<>> /\ Head(ls) = Tok("blank") THEN DropLeadingBlank(Tail(ls)) ELSE ls

\* float(line)
Float(line) ==
    IF line.kind \in {"num", "nan", "inf", "-inf"} THEN line ELSE Raised("ValueError")

\* duration <= 0
LeqZero(d) ==
    CASE d.kind = "num" -> d.v <= 0
      [] d.kind = "-inf" -> TRUE
      [] OTHER -> FALSE

\* duration > 86400 * 7
GtSevenDays(d) ==
    CASE d.kind = "num" -> d.v > SevenDays
      [] d.kind = "inf" -> TRUE
      [] OTHER -> FALSE

\* ffprobe_util.py 52-72: the body of the try block
DurationBody(o) ==
    IF o.raises # NULL THEN Raised(o.raises)
    ELSE IF o.returncode # 0 THEN NoneValue
    ELSE IF o.stdout = <<>> THEN NoneValue
    ELSE LET rest == DropLeadingBlank(o.stdout)
         IN  IF rest = <<>> THEN Raised("IndexError")
             ELSE LET duration == Float(Head(rest))
                  IN  IF duration.kind = "raised" THEN duration
                      ELSE IF LeqZero(duration) \/ GtSevenDays(duration) THEN NoneValue
                      ELSE duration

\* A mutant of Caught: only the exceptions named in the handlers are caught.
CaughtIfNamed(e) ==
    e \in {"TimeoutExpired", "ValueError", "IndexError", "FileNotFoundError", "PermissionError"}

\* ffprobe_util.py 73-81: TimeoutExpired, then ValueError, IndexError and
\* OSError, then every other Exception
Caught(e) == TRUE

\* ffprobe_util.get_duration
get_duration(o) ==
    LET r == DurationBody(o)
    IN  IF r.kind = "raised" /\ Caught(r.exc) THEN NoneValue ELSE r

ProbeQuiet ==
    /\ probe = Outcome(NULL, 0, <<>>)
    /\ avail = "not run"
    /\ dur = NotRun

ProbeInit ==
    /\ probe \in Outcomes
    /\ avail = "not run"
    /\ dur = NotRun
    /\ SyncInit

\* A call of check_ffprobe_available (the self-check at start-up)
CheckFfprobeAvailable ==
    /\ avail = "not run"
    /\ avail' = check_ffprobe_available(probe)
    /\ UNCHANGED <<probe, dur>>
    /\ UNCHANGED notProbe

\* A call of get_duration
GetDuration ==
    /\ dur = NotRun
    /\ dur' = get_duration(probe)
    /\ UNCHANGED <<probe, avail>>
    /\ UNCHANGED notProbe

ProbeNext == CheckFfprobeAvailable \/ GetDuration

PlannerQuiet ==
    /\ size = 0
    /\ HLS_SEGMENT_BYTES = 0
    /\ segment_bytes = 0
    /\ offset = 0
    /\ lines = <<>>
    /\ ppc = "start"

Init == SyncInit /\ PlannerQuiet /\ ArtQuiet /\ ProbeQuiet

Next == SyncNext

Spec == Init /\ [][Next]_vars

SpecSeq == Init /\ [][SeqNext]_vars

\* ------------------------------------------------------------- parse_nfo

ArtInit ==
    /\ xml_root \in ArtDocs
    /\ meta = NoMeta
    /\ mpc = "start"
    /\ files = {}
    /\ art = NoArt
    /\ wb = NoWb
    /\ SyncInit
    /\ PlannerQuiet
    /\ ProbeQuiet

\* metadata.py 90-174: the document is parsed into the record
ParseNfo ==
    /\ mpc = "start"
    /\ meta' = parse_nfo(xml_root)
    /\ mpc' = "parsed"
    /\ UNCHANGED <<xml_root, files, art, wb>>
    /\ UNCHANGED notArt

ArtNext == ParseNfo

SpecArt == ArtInit /\ [][ArtNext]_vars

\* ------------------------------------------------- artwork file resolution

ResolveInit ==
    /\ xml_root \in ResolveDocs
    /\ files \in FileSets
    /\ meta = NoMeta
    /\ mpc = "start"
    /\ art = NoArt
    /\ wb = NoWb
    /\ SyncInit
    /\ PlannerQuiet
    /\ ProbeQuiet

\* metadata.py 240-244, called with the parsed record
GetPoster ==
    /\ mpc = "parsed"
    /\ art.poster = NotCalled
    /\ art' = [art EXCEPT !.poster = get_poster_path(files, ArtCode, meta)]
    /\ UNCHANGED <<xml_root, meta, mpc, files, wb>>
    /\ UNCHANGED notArt

\* metadata.py 247-252
GetFanart ==
    /\ mpc = "parsed"
    /\ art.fanart = NotCalled
    /\ art' = [art EXCEPT !.fanart = get_fanart_path(files, ArtCode, meta)]
    /\ UNCHANGED <<xml_root, meta, mpc, files, wb>>
    /\ UNCHANGED notArt

\* metadata.py 255-259
GetThumb ==
    /\ mpc = "parsed"
    /\ art.thumb = NotCalled
    /\ art' = [art EXCEPT !.thumb = get_thumb_path(files, ArtCode, meta)]
    /\ UNCHANGED <<xml_root, meta, mpc, files, wb>>
    /\ UNCHANGED notArt

ResolveNext == ParseNfo \/ GetPoster \/ GetFanart \/ GetThumb

ProbeStart == ProbeInit /\ PlannerQuiet /\ ArtQuiet

SpecProbe == ProbeStart /\ [][ProbeNext]_vars

SpecResolve == ResolveInit /\ [][ResolveNext]_vars

\* ------------------------------------------------------ genre/tag write-back

WriteBackInit ==
    /\ xml_root \in WbDocs
    /\ \E p \in WbArgs : wb = [genres |-> p[1], tags |-> p[2], n |-> 0]
    /\ meta = NoMeta
    /\ mpc = "start"
    /\ files = {}
    /\ art = NoArt
    /\ SyncInit
    /\ PlannerQuiet
    /\ ProbeQuiet

\* metadata.update_nfo_genres_tags: the document is rewritten in place; what
\* was parsed before is stale
UpdateNfo ==
    /\ wb.n < MaxWrites
    /\ xml_root' = update_nfo_genres_tags(xml_root, wb.genres, wb.tags)
    /\ wb' = [wb EXCEPT !.n = @ + 1]
    /\ meta' = NoMeta
    /\ mpc' = "start"
    /\ UNCHANGED <<files, art>>
    /\ UNCHANGED notArt

WriteBackNext == UpdateNfo \/ ParseNfo

SpecWriteBack == WriteBackInit /\ [][WriteBackNext]_vars

(***************************************************************************)
(* Segment planner                                                         *)
(***************************************************************************)

\* MPEG-TS packet size (api.py: TS_PACKET_SIZE = 188)
TS_PACKET_SIZE == 188

\* Largest file size explored
MaxSize == 1000

\* Configured nominal segment sizes explored: negative, zero, below one
\* packet, exactly one packet, unaligned and aligned multiples, the default.
SegmentConfigs == {-400, -1, 0, 1, 187, 188, 189, 400, 564, 2 * 1024 * 1024}

\* A mutant of EffectiveSegmentBytes: the clamp to one packet is left out.
EffectiveSegmentBytesNoClamp(cfg) == (cfg \div TS_PACKET_SIZE) * TS_PACKET_SIZE

\* segment_bytes = (segment_bytes // 188) * 188, clamped up to one packet
EffectiveSegmentBytes(cfg) ==
    LET rounded == (cfg \div TS_PACKET_SIZE) * TS_PACKET_SIZE
    IN  IF rounded < TS_PACKET_SIZE THEN TS_PACKET_SIZE ELSE rounded

\* A mutant of Chunk: the chunk is not rounded down to a packet boundary.
ChunkUnaligned(seg, remaining) == Min(seg, remaining)

\* chunk = min(segment_bytes, remaining); chunk = (chunk // 188) * 188
Chunk(seg, remaining) ==
    (Min(seg, remaining) \div TS_PACKET_SIZE) * TS_PACKET_SIZE

HeaderLines ==
    << [tag |-> "#EXTM3U"],
       [tag |-> "#EXT-X-VERSION:4"],
       [tag |-> "#EXT-X-TARGETDURATION:5"] >>

\* The three lines appended for one segment
SegmentLines(chunk, off) ==
    << [tag |-> "#EXTINF:4.0,"],
       [tag |-> "#EXT-X-BYTERANGE", length |-> chunk, offset |-> off],
       [tag |-> "segment_url"] >>

EndList == [tag |-> "#EXT-X-ENDLIST"]

PlannerInit ==
    /\ size \in 0..MaxSize
    /\ HLS_SEGMENT_BYTES \in SegmentConfigs
    /\ segment_bytes = 0
    /\ offset = 0
    /\ lines = <<>>
    /\ ppc = "start"
    /\ SyncInit
    /\ ArtQuiet
    /\ ProbeQuiet

\* api.py 424-438: the effective segment size, the header lines, offset = 0
PlaylistBegin ==
    /\ UNCHANGED notPlanner
    /\ ppc = "start"
    /\ segment_bytes' = EffectiveSegmentBytes(HLS_SEGMENT_BYTES)
    /\ lines' = HeaderLines
    /\ offset' = 0
    /\ ppc' = "loop"
    /\ UNCHANGED <<size, HLS_SEGMENT_BYTES>>

\* api.py 439-448: one iteration of the while loop that emits a segment
PlaylistEmit ==
    /\ UNCHANGED notPlanner
    /\ ppc = "loop"
    /\ offset < size
    /\ LET chunk == Chunk(segment_bytes, size - offset)
       IN  /\ chunk # 0
           /\ lines' = lines \o SegmentLines(chunk, offset)
           /\ offset' = offset + chunk
    /\ UNCHANGED <<size, HLS_SEGMENT_BYTES, segment_bytes, ppc>>

\* api.py 439, 443-444, 449: the loop ends (condition false, or break) and
\* the end-of-list marker is appended
PlaylistEnd ==
    /\ UNCHANGED notPlanner
    /\ ppc = "loop"
    /\ (offset >= size \/ Chunk(segment_bytes, size - offset) = 0)
    /\ lines' = Append(lines, EndList)
    /\ ppc' = "done"
    /\ UNCHANGED <<size, HLS_SEGMENT_BYTES, segment_bytes, offset>>

PlannerNext == PlaylistBegin \/ PlaylistEmit \/ PlaylistEnd

SpecPlanner == PlannerInit /\ [][PlannerNext]_vars

\* The handler runs to completion on its thread: every enabled step is taken.
SpecPlannerLive == PlannerInit /\ [][PlannerNext]_vars /\ WF_vars(PlannerNext)

\* The (length, offset) pairs of the playlist, in order
Segments == SelectSeq(lines, LAMBDA l : l.tag = "#EXT-X-BYTERANGE")

RECURSIVE SumLengths(_)
SumLengths(segs) ==
    IF segs = <<>> THEN 0 ELSE Head(segs).length + SumLengths(Tail(segs))

(***************************************************************************)
(* Claims about the segment planner                                        *)
(***************************************************************************)

\* C1: for every file size and every nominal segment size of at least one
\* packet, the emitted segments start at offset 0, are contiguous, have
\* lengths that are positive multiples of the packet size, stay inside the
\* file, and (once the playlist is complete) sum to size - (size mod 188).
C1_SegmentCoverage ==
    (ppc # "start" /\ HLS_SEGMENT_BYTES >= TS_PACKET_SIZE) =>
        LET segs == Segments
        IN  /\ (Len(segs) > 0 => segs[1].offset = 0)
            /\ \A i \in 1..Len(segs) :
                  /\ segs[i].length > 0
                  /\ segs[i].length % TS_PACKET_SIZE = 0
                  /\ segs[i].offset + segs[i].length <= size
            /\ \A i \in 2..Len(segs) :
                  /\ segs[i].offset = segs[i-1].offset + segs[i-1].length
                  /\ segs[i].offset > segs[i-1].offset
            /\ (ppc = "done" =>
                  SumLengths(segs) = size - (size % TS_PACKET_SIZE))

\* C1 witness: a finished playlist of several segments for a file whose size
\* is not a multiple of the packet size.
C1_Witness ==
    /\ ppc = "done"
    /\ HLS_SEGMENT_BYTES >= TS_PACKET_SIZE
    /\ Len(Segments) >= 2
    /\ size % TS_PACKET_SIZE # 0

\* C2 as stated: size 500 with nominal segment 400 gives the two segments
\* 376@0 and 124@376 and no undistributed trailing byte.
C2_AsStated ==
    (ppc = "done" /\ size = 500 /\ HLS_SEGMENT_BYTES = 400) =>
        /\ Segments = << [tag |-> "#EXT-X-BYTERANGE", length |-> 376, offset |-> 0],
                         [tag |-> "#EXT-X-BYTERANGE", length |-> 124, offset |-> 376] >>
        /\ size - SumLengths(Segments) = 0

\* C2 amended: size 500 with nominal segment 400 gives exactly one segment,
\* 376@0, and leaves 124 trailing bytes outside the plan.
C2_Example500 ==
    (ppc = "done" /\ size = 500 /\ HLS_SEGMENT_BYTES = 400) =>
        /\ Segments = << [tag |-> "#EXT-X-BYTERANGE", length |-> 376, offset |-> 0] >>
        /\ size - SumLengths(Segments) = 124

\* C2 witness: the finished playlist of the 500-byte file.
C2_Witness == ppc = "done" /\ size = 500 /\ HLS_SEGMENT_BYTES = 400

CountEndList == Len(SelectSeq(lines, LAMBDA l : l = EndList))

\* C3: for every file size and every integer nominal segment size the
\* handler reaches the end of the playlist; an iteration that emits a
\* segment strictly increases the offset and happens only while at least one
\* packet remains; the finished playlist leaves fewer than 188 bytes
\* unplanned and has exactly one end-of-list marker, as its last line.
C3_PlannerTerminates ==
    /\ <>(ppc = "done")
    /\ [][ Len(lines') > Len(lines) /\ ppc' = "loop" /\ ppc = "loop" =>
              /\ offset' > offset
              /\ size - offset >= TS_PACKET_SIZE ]_vars
    /\ [](ppc = "done" =>
              /\ size - offset < TS_PACKET_SIZE
              /\ lines[Len(lines)] = EndList
              /\ CountEndList = 1)

\* C3 witness: a finished playlist of several segments under a nominal
\* segment size that is zero or negative.
C3_Witness ==
    /\ ppc = "done"
    /\ HLS_SEGMENT_BYTES <= 0
    /\ Len(Segments) >= 2
    /\ CountEndList = 1

(***************************************************************************)
(* Claims about the sync run and the catalog                               *)
(***************************************************************************)

\* The roots a media_root argument names
RootsOf(root) ==
    CASE root = RootList -> <<"r1", "r2">>
      [] root = MissingRootList -> <<"r3", "r1">>
      [] OTHER -> <<root>>

\* The sidecars under the roots, in discovery order
WalkAll(root) ==
    LET rs == RootsOf(root)
    IN  IF Len(rs) = 2 THEN WalkNfo(rs[1]) \o WalkNfo(rs[2]) ELSE WalkNfo(rs[1])

\* The distinct codes of the sidecars that are not template names
DiscoveredCodes(root) ==
    {DocInfo[d].stem :
        d \in {x \in Range(WalkAll(root)) :
                  Lower(DocInfo[x].stem) \notin _TEMPLATE_NFO_NAMES}}

\* The first sidecar discovered for a code
FirstDoc(root, code) ==
    LET w == WalkAll(root)
        i == CHOOSE i \in 1..Len(w) :
                /\ DocInfo[w[i]].stem = code
                /\ \A j \in 1..(i-1) : DocInfo[w[j]].stem # code
    IN  w[i]

\* A sync run over existing roots has ended, with a result or an exception
ScanFinished(s) ==
    /\ sess[s].op = "scan"
    /\ sess[s].pc \in {"done", "failed"}
    /\ \A i \in 1..Len(RootsOf(sess[s].root)) :
          RootsOf(sess[s].root)[i] \in ExistingRoots

\* C4 as stated: a sync run over a root that holds the sidecar of a code
\* completes without error and the committed catalog holds the item of that
\* code with the sidecar's path; no flush of the run violates the NOT NULL
\* constraint on nfo_path.
C4_FirstDiscoveryCreates ==
    \A s \in Sessions :
        /\ sess[s].result.err # "IntegrityError: NOT NULL"
        /\ (ScanFinished(s) /\ sess[s].root \in ExistingRoots) =>
              /\ sess[s].result.kind = "count"
              /\ \A c \in DiscoveredCodes(sess[s].root) :
                    \E r \in db.items :
                        r.code = c /\ r.nfo_path = FirstDoc(sess[s].root, c)

\* C5 as stated: a sync run returns the number of distinct non-template
\* codes it discovered (1 for templates plus one real item), and the catalog
\* never holds an item whose lower-cased code is a template name.
C5_TemplateDenylist ==
    /\ \A r \in db.items : Lower(r.code) \notin _TEMPLATE_NFO_NAMES
    /\ \A s \in Sessions :
          (ScanFinished(s) /\ sess[s].root \in ExistingRoots) =>
              sess[s].result =
                  CountResult(Cardinality(DiscoveredCodes(sess[s].root)))

\* C6 as stated: a sync run over one or more roots counts every distinct
\* code once, and afterwards the catalog holds exactly one item per code,
\* whose sidecar and media paths come from the first-discovered sidecar of
\* that code, whether the duplicates lie in one root or in two.
C6_FirstWins ==
    \A s \in Sessions :
        ScanFinished(s) =>
            /\ sess[s].result.kind = "count"
            /\ sess[s].result.count = Cardinality(DiscoveredCodes(sess[s].root))
            /\ \A c \in DiscoveredCodes(sess[s].root) :
                  /\ Cardinality({r \in db.items : r.code = c}) = 1
                  /\ \A r \in db.items :
                        r.code = c =>
                            /\ r.nfo_path = FirstDoc(sess[s].root, c)
                            /\ r.video_path = DocInfo[FirstDoc(sess[s].root, c)].video

\* C7: no two items of the catalog carry the same code, and the code of an
\* item never changes: whatever runs (rescans included) leaves every
\* committed item in place under its code.
C7_UniqueCode ==
    /\ [](\A a, b \in db.items : a.code = b.code => a = b)
    /\ [][ \A r \in db.items :
              \E q \in db'.items : q.id = r.id /\ q.code = r.code ]_vars

\* C7 witness: a sync run has rescanned a code that was in the catalog and
\* committed; the catalog holds the one item, stamped by that run.
C7_Witness ==
    \E s \in Sessions :
        /\ sess[s].op = "scan"
        /\ sess[s].pc = "done"
        /\ sess[s].result.count >= 1
        /\ sess[s].now >= 2
        /\ \E r \in db.items :
              /\ r.last_scanned_at = sess[s].now
              /\ Cardinality({q \in db.items : q.code = r.code}) = 1

\* The names the sidecar gives for a kind, as a set
DocNames(doc, kind) == Range(ParsedNames(doc, kind))

\* The names of the vocabulary rows an item is linked to
LinkedNames(st, kind, id) ==
    {r.name : r \in {x \in st.vocab[kind] : x.id \in LinkedTo(st, kind, id)}}

\* C8 as stated: after a sync run has processed a code, every mutable field
\* of the item equals the value derived in that run, title and description
\* included when the sidecar supplies none, and the links are those of the
\* sidecar.
C8_FullRefresh ==
    \A s \in Sessions :
        (ScanFinished(s) /\ sess[s].pc = "done" /\ sess[s].root \in ExistingRoots) =>
            \A c \in DiscoveredCodes(sess[s].root) :
                \A r \in db.items :
                    r.code = c =>
                        LET doc == FirstDoc(sess[s].root, c)
                        IN  /\ r.nfo_path = doc
                            /\ r.video_path = DocInfo[doc].video
                            /\ r.video_type = DocInfo[doc].video_type
                            /\ r.file_size = StatInfo[StatTarget(doc)].size
                            /\ r.file_mtime = StatInfo[StatTarget(doc)].mtime
                            /\ r.last_scanned_at = sess[s].now
                            /\ r.title = ScannerTitle(doc)
                            /\ (Truthy(ScannerPlot(doc)) => r.description = ScannerPlot(doc))
                            /\ (~Truthy(ScannerPlot(doc)) => ~Truthy(r.description))
                            /\ \A k \in Kinds :
                                  LinkedNames(db, k, r.id) = DocNames(doc, k)

C10_AsStated ==
    \A s \in Sessions :
        (sess[s].op = "scan" /\ sess[s].pc = "done") =>
            \A kv \in sess[s].preLinked \cup sess[s].created :
                \E l \in db.links[kv[1]] : l[2] = kv[2]

\* C10 amended: when a sync run commits, every vocabulary row created
\* during the run is linked to at least one item (a row that was linked
\* before the run may be left with zero links).
C10_CreatedRowsLinked ==
    [][ \A s \in Sessions :
           (sess[s].op = "scan" /\ sess[s].pc = "commit" /\ sess'[s].pc = "done") =>
               \A kv \in sess[s].created :
                   /\ \E r \in db'.vocab[kv[1]] : r.id = kv[2]
                   /\ \E l \in db'.links[kv[1]] : l[2] = kv[2] ]_vars

\* C10 witness: a sync run that created a vocabulary row has committed, the
\* row is linked, and no other operation is in flight.
C10_Witness ==
    \E s \in Sessions :
        /\ sess[s].op = "scan"
        /\ sess[s].pc = "done"
        /\ sess[s].created # {}
        /\ \A kv \in sess[s].created : \E l \in db.links[kv[1]] : l[2] = kv[2]
        /\ \A t \in Sessions \ {s} : sess[t].pc = "idle"

\* C11: all-or-nothing per run.  The committed store changes only in the
\* one commit step that ends an operation, which a sync run takes after its
\* last sidecar; a sync run that stops with an error (a failed flush or
\* commit, a locked database, a crash) leaves the committed store as it
\* was, hands its caller an error and no count, and leaves nothing of its
\* work in an open transaction; sessions that do not hold the write
\* transaction see the committed store only.
C11_AllOrNothing ==
    /\ [](/\ (writer = NoSession => txn = db)
          /\ \A s \in Sessions : writer # s => View(s) = db
          /\ \A s \in Sessions :
                (sess[s].op = "scan" /\ sess[s].pc = "failed") =>
                    sess[s].result.kind = "error")
    /\ [][ /\ db' # db =>
                \E s \in Sessions :
                    /\ sess[s].pc \in {"commit", "favorite"}
                    /\ sess'[s].pc = "done"
                    /\ (sess[s].op = "scan" =>
                           sess[s].pc = "commit" /\ sess[s].todo = <<>>)
           /\ \A s \in Sessions :
                (sess[s].op = "scan" /\ sess[s].pc # "failed"
                                     /\ sess'[s].pc = "failed") =>
                    /\ db' = db
                    /\ (writer = s => writer' = NoSession /\ txn' = db) ]_vars

\* C11 witness: a sync run has failed after it had flushed a vocabulary row
\* of its own, and the committed store holds no such row.
C11_Witness ==
    \E s \in Sessions :
        /\ sess[s].op = "scan"
        /\ sess[s].pc = "failed"
        /\ sess[s].created # {}
        /\ \A kv \in sess[s].created :
              ~\E r \in db.vocab[kv[1]] : r.id = kv[2]

\* C12 as stated: a sync run over roots of which some do not exist raises
\* no error; the missing roots contribute nothing, and every code of the
\* existing roots is processed in this run and counted.
C12_MissingRootsSkipped ==
    \A s \in Sessions :
        ( /\ sess[s].op = "scan"
          /\ sess[s].pc \in {"done", "failed"}
          /\ sess[s].root # NULL
          /\ \E i \in 1..Len(RootsOf(sess[s].root)) :
                RootsOf(sess[s].root)[i] \notin ExistingRoots ) =>
            /\ sess[s].result = CountResult(Cardinality(DiscoveredCodes(sess[s].root)))
            /\ \A c \in DiscoveredCodes(sess[s].root) :
                  \E r \in db.items :
                      r.code = c /\ r.last_scanned_at = sess[s].now

\* C13 as stated: parsing an unparsable sidecar gives the default record
\* (no title, no plot, no names), and a sync run that meets such a sidecar
\* still creates or updates its item, counts it, and processes every
\* remaining sidecar of the run.
C13_MalformedSidecarRecoverable ==
    /\ \A d \in Docs :
          ~DocInfo[d].parses =>
              /\ ScannerTitle(d) = NULL
              /\ ScannerPlot(d) = NULL
              /\ NamesToLink(d) = <<>>
    /\ \A s \in Sessions :
          ( /\ ScanFinished(s)
            /\ sess[s].root \in ExistingRoots
            /\ \E d \in Range(WalkNfo(sess[s].root)) : ~DocInfo[d].parses ) =>
              /\ sess[s].result =
                    CountResult(Cardinality(DiscoveredCodes(sess[s].root)))
              /\ \A c \in DiscoveredCodes(sess[s].root) :
                    \E r \in db.items :
                        /\ r.code = c
                        /\ r.nfo_path = FirstDoc(sess[s].root, c)
                        /\ r.last_scanned_at = sess[s].now

(***************************************************************************)
(* Claims about the metadata extractor                                     *)
(***************************************************************************)

\* The elements that may supply the poster, and those that may supply thumb
IsPosterSource(el) ==
    el.tag = "poster" \/ (el.tag = "thumb" /\ IsPosterMarked(el))

IsThumbSource(el) ==
    el.tag = "thumbnail" \/ (el.tag = "thumb" /\ ~IsPosterMarked(el))

\* The document of the example: a poster-marked thumb and an untyped thumb
PosterAndThumbDoc ==
    << Element("thumb", "poster", NULL, "poster.jpg", NoNested),
       Element("thumb", NULL, NULL, " thumb.jpg ", NoNested) >>

\* C14: after parsing, poster_path is the text of a <poster> element or of
\* a <thumb> marked aspect="poster" or type="poster", and thumb is the text
\* of a <thumbnail> element or of a <thumb> not marked as poster; a
\* document without any poster source has no poster_path, and the document
\* with a poster-marked thumb "poster.jpg" and an untyped thumb "thumb.jpg"
\* yields poster_path "poster.jpg" and thumb "thumb.jpg".
C14_PosterThumbSeparate ==
    mpc = "parsed" =>
        /\ meta.poster_path # NULL =>
              \E i \in 1..Len(xml_root) :
                  IsPosterSource(xml_root[i]) /\ _text(xml_root[i]) = meta.poster_path
        /\ meta.thumb # NULL =>
              \E i \in 1..Len(xml_root) :
                  IsThumbSource(xml_root[i]) /\ _text(xml_root[i]) = meta.thumb
        /\ (\A i \in 1..Len(xml_root) : ~IsPosterSource(xml_root[i])) =>
              meta.poster_path = NULL
        /\ xml_root = PosterAndThumbDoc =>
              meta.poster_path = "poster.jpg" /\ meta.thumb = "thumb.jpg"

\* C14 witness: a parsed document whose only poster source is a marked
\* thumb and whose only thumb source is an untyped thumb, both found.
C14_Witness ==
    /\ mpc = "parsed"
    /\ xml_root = PosterAndThumbDoc
    /\ meta.poster_path = "poster.jpg"
    /\ meta.thumb = "thumb.jpg"

\* ------------------------------------------------------------------- C15

\* The text is blank or a network reference
BlankOrUrl(s) == s = NULL \/ Strip(s) = "" \/ StartsWithHttp(Strip(s))

\* The document's only artwork element is a network reference
OnlyAUrl(doc) == Len(doc) = 1 /\ StartsWithHttp(Strip(doc[1].text))

\* r is the first name of the list that exists in the directory
IsFirstExistingOf(r, names) ==
    \E i \in 1..Len(names) :
        /\ r = names[i]
        /\ r \in files
        /\ \A j \in 1..(i-1) : names[j] \notin files

\* r is what a resolver without a candidate returns: the first existing
\* conventional filename, None when none exists
IsFallbackOf(r, names) ==
    \/ IsFirstExistingOf(r, names)
    \/ r = NoFile /\ \A i \in 1..Len(names) : names[i] \notin files

\* C15: parsing never stores a blank text or a text that starts with
\* http:// or https:// in poster_path, thumb or fanart_path; and when the
\* document's only artwork element is such a URL, each resolver returns the
\* first existing conventional filename of the sidecar's directory (None if
\* there is none), never the URL.
C15_NetworkReferencesNotLocal ==
    /\ \A f \in {"poster_path", "thumb", "fanart_path"} :
           meta[f] # NULL => ~BlankOrUrl(meta[f])
    /\ (mpc = "parsed" /\ OnlyAUrl(xml_root)) =>
           /\ art.poster # NotCalled =>
                  IsFallbackOf(art.poster, _poster_fallback_names(ArtCode))
           /\ art.fanart # NotCalled =>
                  IsFallbackOf(art.fanart, _fanart_fallback_names(ArtCode))
           /\ art.thumb # NotCalled =>
                  IsFallbackOf(art.thumb, _thumb_fallback_names(ArtCode))
           /\ \A k \in {"poster", "fanart", "thumb"} :
                  art[k] \notin {DirFile(HttpsUrl), DirFile(HttpUrl)}

\* C15 witness: the only artwork element is a URL, A-poster.jpg and the
\* generic poster.jpg both exist, and the poster resolver returned
\* A-poster.jpg.
C15_Witness ==
    /\ OnlyAUrl(xml_root)
    /\ mpc = "parsed"
    /\ meta = NoMeta
    /\ files = {CodeFile(ArtCode, "-poster.jpg"), DirFile("poster.jpg")}
    /\ art.poster = CodeFile(ArtCode, "-poster.jpg")

\* ------------------------------------------------------------------- C16

\* The children of the root other than <genre> and <tag>
OtherChildren(doc) == SelectSeq(doc, LAMBDA e : e.tag \notin {"genre", "tag"})

\* The texts of the children with the tag, as written in the document
TextsOf(doc, tag_name) ==
    LET nodes == SelectSeq(doc, LAMBDA e : e.tag = tag_name)
    IN  [i \in 1..Len(nodes) |-> nodes[i].text]

\* The stripped non-blank entries of a list, in order
Cleaned(xs) ==
    SelectSeq([i \in 1..Len(xs) |-> Strip(xs[i])], LAMBDA n : n # "")

\* A step that writes the lists back
IsWriteBack == wb'.n = wb.n + 1

\* The re-parsed lists are the cleaned lists, the genre and tag children are
\* exactly the written ones, and a second write-back changes nothing
C16_RoundTrip ==
    /\ []((wb.n >= 1 /\ mpc = "parsed") =>
             /\ meta.genres = Cleaned(wb.genres)
             /\ meta.tags = Cleaned(wb.tags))
    /\ [][IsWriteBack =>
             /\ TextsOf(xml_root', "genre") = Cleaned(wb.genres)
             /\ TextsOf(xml_root', "tag") = Cleaned(wb.tags)
             /\ (wb.n >= 1 => xml_root' = xml_root)]_vars

SameTextButIndent(new, old) ==
    \/ new.text = old.text
    \/ /\ HasChildren(old)
       /\ old.text = NULL \/ Strip(old.text) = ""
       /\ new.text # NULL /\ Strip(new.text) = ""

ParsedAsNumber(o) ==
    /\ o.raises = NULL
    /\ o.returncode = 0
    /\ \E i \in 1..Len(o.stdout) :
          /\ o.stdout[i].kind \in {"num", "nan", "inf", "-inf"}
          /\ \A j \in 1..(i-1) : o.stdout[j] = Tok("blank")

\* C17: get_duration returns a value d only when the analyzer exited with
\* code 0, the first output line parsed as a number and 0 < d <= 604800;
\* 0, a negative value and a value above 604800 give the absence value, and
\* exactly 604800 is accepted.
C17_DurationWindow ==
    (dur # NotRun /\ dur # NoneValue) =>
        /\ ParsedAsNumber(probe)
        /\ dur.kind = "num"
        /\ 0 < dur.v /\ dur.v <= 604800

\* ------------------------------------------------------------------- C18

\* The analyzer could not be run, timed out or exited with a non-zero code
AnalyzerFailed(o) == o.raises # NULL \/ o.returncode # 0

\* C18: neither call propagates an exception; when the analyzer is missing,
\* times out, raises anything else or exits with a non-zero code,
\* check_ffprobe_available returns false; in those cases and when the output
\* is empty or not a number get_duration returns the absence value.
C18_ProbeNeverRaises ==
    /\ avail \in {"not run", "True", "False"}
    /\ dur.kind # "raised"
    /\ (avail # "not run" /\ AnalyzerFailed(probe)) => avail = "False"
    /\ (dur # NotRun /\ ~ParsedAsNumber(probe)) => dur = NoneValue

\* C18 witness: the analyzer raised an exception that no handler names, and
\* both calls returned.
C18_Witness ==
    /\ probe.raises = "RuntimeError"
    /\ avail = "False"
    /\ dur = NoneValue

\* ------------------------------------------------------------------- C19

\* A step of the sync run on session s
ScanRunStep(s) ==
    /\ sess[s].op = "scan"
    /\ sess[s].pc \notin {"idle", "done", "failed"}
    /\ sess'[s] # sess[s]

\* The item is in the new catalog as it was, with the links it had
ItemUntouched(r) ==
    /\ r \in db'.items
    /\ \A k \in Kinds :
          /\ LinkedTo(db', k, r.id) = LinkedTo(db, k, r.id)
          /\ LinkedNames(db', k, r.id) = LinkedNames(db, k, r.id)

\* C19: no step of a sync run deletes a MediaItem from the committed
\* catalog, changes a field or a genre/tag link of an item whose code the
\* run does not discover, or changes the Favorite rows.
C19_ScanFrame ==
    [][\A s \in Sessions :
          ScanRunStep(s) =>
              /\ \A r \in db.items : \E q \in db'.items : q.id = r.id
              /\ db'.favorites = db.favorites
              /\ IF sess[s].root \in ExistingRoots
                 THEN \A r \in db.items :
                         r.code \notin DiscoveredCodes(sess[s].root) => ItemUntouched(r)
                 ELSE db' = db]_vars

\* C19 witness: a sync run over r2 has processed and committed item A while
\* item B, whose sidecar is not under r2, is in the catalog with the path
\* and the links it was created with.
C19_Witness ==
    \E s \in Sessions :
        /\ sess[s].op = "scan"
        /\ sess[s].pc = "done"
        /\ sess[s].root = "r2"
        /\ sess[s].result = CountResult(1)
        /\ \E a, b \in db.items :
              /\ a.code = "A" /\ a.nfo_path = "r2/A.nfo"
              /\ a.last_scanned_at = sess[s].now
              /\ b.code = "B" /\ b.nfo_path = "r1/B.nfo"
              /\ b.last_scanned_at < sess[s].now
              /\ \A k \in Kinds : LinkedNames(db, k, b.id) = DocNames("r1/B.nfo", k)

\* ------------------------------------------------------------------- C20

\* The stripped non-blank names the sidecar holds for a kind, none when it
\* does not parse
SidecarNames(doc, kind) ==
    IF ~DocInfo[doc].parses THEN {}
    ELSE Range(Cleaned(IF kind = "genre" THEN disk[doc].genres ELSE disk[doc].tags))

\* The names of the vocabulary rows of a kind that the item of the code is
\* linked to in the committed catalog
NamesLinkedToCode(code, kind) ==
    UNION {LinkedNames(db, kind, r.id) : r \in {x \in db.items : x.code = code}}

\* C20: after a pass (a sync run, or the synchronization of one item) has
\* processed an item and committed, the genre names linked to the item are
\* the stripped non-blank genre names of its sidecar, and likewise the tags.
C20_LinksMatchSidecar ==
    \A s \in Sessions :
        /\ (sess[s].op = "scan" /\ sess[s].pc = "done" /\ sess[s].root \in ExistingRoots) =>
              \A c \in DiscoveredCodes(sess[s].root), k \in Kinds :
                  NamesLinkedToCode(c, k) = SidecarNames(FirstDoc(sess[s].root, c), k)
        /\ (sess[s].op = "sync_item" /\ sess[s].pc = "done") =>
              \A d \in SyncItemDocs, k \in Kinds :
                  (sess[s].result = OkResult /\ \E r \in db.items :
                        r.nfo_path = d /\ r.last_scanned_at = sess[s].now) =>
                      NamesLinkedToCode(DocInfo[d].stem, k) = SidecarNames(d, k)

\* C20 witness: item A was linked to g1, g2 and t1; a sync run over r2,
\* whose A.nfo names g2, a blank genre and the new tag t2, has processed
\* it: A is linked to g2 and t2 alone, and the rows of g1 and t1 are left
\* without the link.
C20_Witness ==
    \E s \in Sessions :
        /\ sess[s].op = "scan" /\ sess[s].pc = "done" /\ sess[s].root = "r2"
        /\ sess[s].result = CountResult(1)
        /\ NamesLinkedToCode("A", "genre") = {"g2"}
        /\ NamesLinkedToCode("A", "tag") = {"t2"}
        /\ \E r \in db.vocab["genre"] : r.name = "g1"
        /\ \E r \in db.vocab["tag"] : r.name = "t1"

\* ------------------------------------------------------------------- C21

\* The sidecar lists a name of the kind more than once
ListsTwice(doc, kind) ==
    LET ns == Cleaned(IF kind = "genre" THEN disk[doc].genres ELSE disk[doc].tags)
    IN  \E i, j \in 1..Len(ns) : i < j /\ ns[i] = ns[j]

\* C21: a sidecar that lists a name twice is reconciled to one link: no
\* session holds the same vocabulary row twice among the link rows it is
\* about to insert for an item, no operation fails on the primary key of a
\* link table, and a sync run over a root whose only sidecar lists a name
\* twice ends with its count when the item is in the catalog.
C21_DuplicatesReconciled ==
    \A s \in Sessions :
        /\ \A i \in DOMAIN sess[s].pend, k \in Kinds :
              ~HasDuplicates(Added(sess[s].pend[i], k))
        /\ sess[s].result.err # "IntegrityError: PRIMARY KEY"
        /\ (sess[s].op = "scan" /\ sess[s].root = "r5" /\ sess[s].pc \in {"done", "failed"}
              /\ ListsTwice("r5/A.nfo", "genre")
              /\ sess[s].result.err \notin {"IntegrityError: NOT NULL", "Crash", "OperationalError"}) =>
                 /\ sess[s].result = CountResult(1)
                 /\ NamesLinkedToCode("A", "genre") = {"g3"}

\* ------------------------------------------------------------------- C22

\* The file a sidecar-supplied text names: the path itself when it is
\* absolute, else the name in the sidecar's directory
NamedFile(c) == IF c = AbsolutePath THEN <<"/", c>> ELSE <<"", c>>

\* r is what a resolver returns for the candidate text c (NULL: none) and
\* the fallback list: the candidate's file if it exists, else the first
\* existing fallback name, nothing when there is none
IsResolutionOf(r, c, names) ==
    /\ r \in files \cup {NoFile}
    /\ IF c # NULL /\ NamedFile(c) \in files
       THEN r = NamedFile(c)
       ELSE IsFallbackOf(r, names)

\* C22: each resolver returns nothing or a file that exists; the
\* sidecar-supplied candidate wins over the fallback files when it exists,
\* else the first existing fallback name is returned, nothing exactly when
\* none exists; the poster's candidate is poster_path when set, else thumb,
\* and thumb is not tried when poster_path is set and missing (for the
\* thumbnail: thumb, else poster_path; for the fanart: fanart_path).
C22_ResolutionPrecedence ==
    mpc = "parsed" =>
        /\ art.poster # NotCalled =>
              IsResolutionOf(art.poster,
                             IF meta.poster_path # NULL THEN meta.poster_path ELSE meta.thumb,
                             _poster_fallback_names(ArtCode))
        /\ art.fanart # NotCalled =>
              IsResolutionOf(art.fanart, meta.fanart_path, _fanart_fallback_names(ArtCode))
        /\ art.thumb # NotCalled =>
              IsResolutionOf(art.thumb,
                             IF meta.thumb # NULL THEN meta.thumb ELSE meta.poster_path,
                             _thumb_fallback_names(ArtCode))

\* C22 witness: poster_path is set and its file is missing, the file of
\* thumb exists and so does the generic poster.jpg; the poster resolver
\* returned poster.jpg and the thumbnail resolver the file of thumb.
C22_Witness ==
    /\ meta.poster_path = "cover.jpg"
    /\ meta.thumb = "still.jpg"
    /\ files = {DirFile("still.jpg"), DirFile("poster.jpg")}
    /\ art.poster = DirFile("poster.jpg")
    /\ art.thumb = DirFile("still.jpg")

\* ------------------------------------------------------------------- C23

\* The file's name starts with the code
IsCodePrefixed(f) == f[1] = ArtCode

\* No sidecar candidate applies: there is none, or its file does not exist
NoCandidateApplies(c) == c = NULL \/ NamedFile(c) \notin files

PosterCandidate == IF meta.poster_path # NULL THEN meta.poster_path ELSE meta.thumb
ThumbCandidate == IF meta.thumb # NULL THEN meta.thumb ELSE meta.poster_path

\* Some code-prefixed name of the list exists
CodePrefixedExists(names) ==
    \E i \in 1..Len(names) : IsCodePrefixed(names[i]) /\ names[i] \in files

\* C23 as stated: for each resolver, when no sidecar candidate applies and
\* a code-prefixed file of its list exists, the file returned is
\* code-prefixed, whatever generic files exist.
C23_AsStated ==
    mpc = "parsed" =>
        /\ (art.poster # NotCalled /\ NoCandidateApplies(PosterCandidate)
               /\ CodePrefixedExists(_poster_fallback_names(ArtCode))) =>
              IsCodePrefixed(art.poster)
        /\ (art.fanart # NotCalled /\ NoCandidateApplies(meta.fanart_path)
               /\ CodePrefixedExists(_fanart_fallback_names(ArtCode))) =>
              IsCodePrefixed(art.fanart)
        /\ (art.thumb # NotCalled /\ NoCandidateApplies(ThumbCandidate)
               /\ CodePrefixedExists(_thumb_fallback_names(ArtCode))) =>
              IsCodePrefixed(art.thumb)

\* The names {code}-poster.*, {code}-thumb.* and {code}-fanart.*
IsCodeDashed(f) ==
    f[1] = ArtCode /\ f[2] \in {"-poster.jpg", "-poster.png", "-thumb.jpg", "-thumb.png",
                                 "-fanart.jpg", "-fanart.png"}

\* The generic poster.jpg, poster.png, poster.jpeg and poster.webp
IsGenericPoster(f) == f[1] = "" /\ f[2] \in {"poster.jpg", "poster.png", "poster.jpeg", "poster.webp"}

\* C23, amended: when no sidecar candidate applies, the fanart and the
\* thumbnail resolver return a code-prefixed file whenever one of their
\* list exists; the poster resolver returns a {code}-poster.* or
\* {code}-thumb.* file whenever one exists, else a generic poster.* file
\* whenever one exists (also when {code}.jpg exists), else {code}.jpg or
\* {code}.png before thumb.jpg and folder.jpg.
C23_FallbackOrder ==
    mpc = "parsed" =>
        /\ (art.fanart # NotCalled /\ NoCandidateApplies(meta.fanart_path)
               /\ CodePrefixedExists(_fanart_fallback_names(ArtCode))) =>
              IsCodePrefixed(art.fanart)
        /\ (art.thumb # NotCalled /\ NoCandidateApplies(ThumbCandidate)
               /\ CodePrefixedExists(_thumb_fallback_names(ArtCode))) =>
              IsCodePrefixed(art.thumb)
        /\ (art.poster # NotCalled /\ NoCandidateApplies(PosterCandidate)) =>
              IF \E f \in files : IsCodeDashed(f) /\ f[2] # "-fanart.jpg" /\ f[2] # "-fanart.png"
              THEN IsCodeDashed(art.poster)
              ELSE IF \E f \in files : IsGenericPoster(f)
              THEN IsGenericPoster(art.poster)
              ELSE IF \E f \in files : f \in {CodeFile(ArtCode, ".jpg"), CodeFile(ArtCode, ".png")}
              THEN art.poster \in {CodeFile(ArtCode, ".jpg"), CodeFile(ArtCode, ".png")}
              ELSE art.poster \in {DirFile("thumb.jpg"), DirFile("folder.jpg"), NoFile}

\* C23 witness: the sidecar names no artwork, {code}.jpg and the generic
\* poster.jpg both exist, and the poster resolver returned poster.jpg.
C23_Witness ==
    /\ mpc = "parsed"
    /\ xml_root = <<>>
    /\ files = {CodeFile(ArtCode, ".jpg"), DirFile("poster.jpg")}
    /\ art.poster = DirFile("poster.jpg")

\* ------------------------------------------------------------------- C24

\* Session s starts an edit in this step
EditStarts(s) == sess[s].pc = "idle" /\ sess'[s].op = "edit"

\* C24: an edit that finds no item for the code, or whose sidecar cannot
\* be written back, returns no item in its first step: the sidecar files,
\* the committed store and the open transaction are as before, and the
\* session holds nothing to flush; an edit goes on only for a catalogued
\* code whose sidecar parses.
C24_WriteBackFailureChangesNothing ==
    /\ [][ \A s \in Sessions :
             EditStarts(s) =>
                 /\ sess'[s].pc \in {"done", "vocab"}
                 /\ sess'[s].pc = "done" =>
                        /\ sess'[s].result = NotFoundResult
                        /\ disk' = disk /\ db' = db /\ txn' = txn /\ writer' = writer
                        /\ sess'[s].pend = NoPending
                 /\ sess'[s].pc = "vocab" =>
                        /\ QueryItem(View(s), sess'[s].cur.code) = sess'[s].cur.id
                        /\ sess'[s].cur.id # 0
                        /\ DocInfo[ItemRow(View(s), sess'[s].cur.id).nfo_path].parses ]_vars
    /\ [](\A s \in Sessions :
             (sess[s].op = "edit" /\ sess[s].result = NotFoundResult) =>
                 sess[s].pc = "done" /\ sess[s].pend = NoPending /\ writer # s)

\* C24 witness: the edit of an item whose sidecar does not parse has
\* returned no item, and a genre row without links is still in the table.
C24_Witness ==
    \E s \in Sessions :
        /\ sess[s].op = "edit"
        /\ sess[s].result = NotFoundResult
        /\ sess[s].cur.id # 0
        /\ ~DocInfo[sess[s].cur.doc].parses
        /\ \E g \in db.vocab["genre"] : \A l \in db.links["genre"] : l[2] # g.id

\* ------------------------------------------------------------------- C25

\* Two sync runs have both looked the same name up, found no row, and are
\* about to insert it
RacingOnName(s1, s2) ==
    /\ s1 # s2
    /\ sess[s1].op = "scan" /\ sess[s2].op = "scan"
    /\ sess[s1].pc = "create" /\ sess[s2].pc = "create"
    /\ Head(sess[s1].names) = Head(sess[s2].names)

\* Two sync runs have both looked the same code up, found no item, and are
\* about to insert it
RacingOnCode(s1, s2) ==
    /\ s1 # s2
    /\ sess[s1].op = "scan" /\ sess[s2].op = "scan"
    /\ sess[s1].pc = "upsert" /\ sess[s2].pc = "upsert"
    /\ sess[s1].cur.id = 0 /\ sess[s2].cur.id = 0
    /\ sess[s1].cur.code = sess[s2].cur.code

\* The committed store holds a row of the kind with the name
CommittedName(kind, name) == \E r \in db.vocab[kind] : r.name = name

\* C25: the committed store never holds two rows for a code or a name.  A
\* sync run inserts a vocabulary row only while no other session holds the
\* write transaction and the committed store has no row of that name, and
\* it holds the write transaction from then on; a run that found no row
\* for a name or a code which the committed store now holds (its rival has
\* committed) can only fail; the step in which a run fails leaves the
\* committed store as it was and rolls its transaction back.  So of two
\* runs racing on one insert at most one commits.
C25_RaceOutcome ==
    /\ [](/\ \A a, b \in db.items : a.code = b.code => a = b
          /\ \A k \in Kinds : \A a, b \in db.vocab[k] : a.name = b.name => a = b)
    /\ [][ \A s \in Sessions :
             sess[s].op = "scan" =>
               /\ (sess[s].pc = "create" /\ sess'[s].pc = "vocab") =>
                     /\ writer \in {NoSession, s}
                     /\ writer' = s
                     /\ ~CommittedName(Head(sess[s].names)[1], Head(sess[s].names)[2])
                     /\ db' = db
               /\ (sess[s].pc = "create" /\ sess'[s] # sess[s]
                      /\ CommittedName(Head(sess[s].names)[1], Head(sess[s].names)[2])) =>
                     sess'[s].pc = "failed"
               /\ (sess[s].pc = "upsert" /\ sess[s].cur.id = 0 /\ sess'[s] # sess[s]
                      /\ \E r \in db.items : r.code = sess[s].cur.code) =>
                     sess'[s].pc = "failed"
               /\ (sess[s].pc # "failed" /\ sess'[s].pc = "failed") =>
                     /\ db' = db
                     /\ sess'[s].result.kind = "error"
                     /\ writer' # s ]_vars

\* C25 witness: two sync runs over r2 raced on the tag t2: one has
\* committed, the other has failed on the UNIQUE constraint, and the
\* committed store holds one row of that name.
C25_Witness ==
    \E s1, s2 \in Sessions :
        /\ s1 # s2
        /\ sess[s1].op = "scan" /\ sess[s1].root = "r2" /\ sess[s1].pc = "done"
        /\ sess[s1].result = CountResult(1)
        /\ sess[s1].created # {}
        /\ sess[s2].op = "scan" /\ sess[s2].root = "r2" /\ sess[s2].pc = "failed"
        /\ sess[s2].result = ErrorResult("IntegrityError: UNIQUE")
        /\ Cardinality({r \in db.vocab["tag"] : r.name = "t2"}) = 1

\* The race itself: both runs have found no row for the same name, or no
\* item for the same code, and neither has inserted yet.
C25_RaceWitness ==
    \E s1, s2 \in Sessions : RacingOnName(s1, s2)

\* ------------------------------------------------------------------- C26

\* floor(S / 188): the integer q with q * 188 <= S < (q + 1) * 188
PacketsIn(S) ==
    CHOOSE q \in ((S \div TS_PACKET_SIZE) - 1)..((S \div TS_PACKET_SIZE) + 1) :
        q * TS_PACKET_SIZE <= S /\ S < (q + 1) * TS_PACKET_SIZE

Max(a, b) == IF a >= b THEN a ELSE b

\* C26: once the planner has computed it, the effective segment length is
\* max(188, floor(S / 188) * 188) for the configured nominal size S; when S
\* is below one packet every emitted segment is exactly 188 bytes long; no
\* emitted segment has length 0.
C26_NominalSegmentClamp ==
    ppc # "start" =>
        /\ segment_bytes = Max(TS_PACKET_SIZE, PacketsIn(HLS_SEGMENT_BYTES) * TS_PACKET_SIZE)
        /\ HLS_SEGMENT_BYTES < TS_PACKET_SIZE =>
              \A i \in 1..Len(Segments) : Segments[i].length = TS_PACKET_SIZE
        /\ \A i \in 1..Len(Segments) : Segments[i].length # 0

\* C26 witness: a finished playlist of five 188-byte segments under a
\* negative nominal size.
C26_Witness ==
    /\ ppc = "done"
    /\ HLS_SEGMENT_BYTES = -400
    /\ size = MaxSize
    /\ Len(Segments) = 5

\* ------------------------------------------------------------------- C27

\* Session s commits an edit in this step
EditCommits(s) ==
    /\ sess[s].op = "edit"
    /\ sess[s].pc = "commit"
    /\ sess'[s].pc = "done"
    /\ sess'[s].result = OkResult

\* The row of the kind has no linked item in the store
Unlinked(st, k, r) == \A l \in st.links[k] : l[2] # r.id

\* C27: a Genre or Tag row leaves the committed store only in the step
\* that commits an edit, and only if no item is linked to it then; the
\* store right after a committed edit has no Genre or Tag row without a
\* linked item; the transaction of a sync run holds every committed row.
C27_OnlyEditDeletesVocabulary ==
    /\ [][ /\ \A k \in Kinds : \A r \in db.vocab[k] :
                  r \notin db'.vocab[k] =>
                      /\ \E s \in Sessions : EditCommits(s)
                      /\ Unlinked(db', k, r)
           /\ \A s \in Sessions :
                  EditCommits(s) =>
                      \A k \in Kinds : \A r \in db'.vocab[k] : ~Unlinked(db', k, r) ]_vars
    /\ [](\A s \in Sessions :
             (writer = s /\ sess[s].op \in {"scan", "sync_item"}) =>
                 \A k \in Kinds : db.vocab[k] \subseteq txn.vocab[k])

\* C27 witness: item A was synchronized from r1 (g1, g2, t1), a sync run
\* over r2 left g1 and t1 without links, and an edit of A to g3, g2 and t1
\* has committed: g1 and t2 are gone, t1 is linked again.
C27_Witness ==
    \E s \in Sessions :
        /\ sess[s].op = "edit" /\ sess[s].pc = "done" /\ sess[s].result = OkResult
        /\ \E a \in db.items : a.code = "A" /\ a.nfo_path = "r2/A.nfo" /\ a.title = "TA"
        /\ {r.name : r \in db.vocab["genre"]} = {"g2", "g3"}
        /\ {r.name : r \in db.vocab["tag"]} = {"t1"}

\* ------------------------------------------------------------------- C28

\* Session s commits a sync run in this step
ScanCommits(s) ==
    /\ sess[s].op = "scan"
    /\ sess[s].pc = "commit"
    /\ sess'[s].pc = "done"

\* The catalog with the last-synchronized timestamps blanked
WithoutTimestamps(st) ==
    [st EXCEPT !.items = {[r EXCEPT !.last_scanned_at = NULL] : r \in st.items}]

StorageErrors ==
    {"OperationalError", "StaleDataError", "IntegrityError: UNIQUE",
     "IntegrityError: NOT NULL", "IntegrityError: PRIMARY KEY"}

\* Session s ends an edit with a storage error in this step
EditFails(s) ==
    /\ sess[s].op = "edit"
    /\ sess[s].pc \in {"vocab", "create", "finish", "commit"}
    /\ sess'[s].pc = "failed"
    /\ sess'[s].result.err \in StorageErrors

\* C29 as stated: in the step in which an edit reports a storage error the
\* item's sidecar holds the genre and tag elements it had when the edit
\* began and the committed store is unchanged; in the step in which an
\* edit commits, the names in the sidecar's genre and tag elements are the
\* names of the item's committed links.
C29_EditAtomic ==
    [][ \A s \in Sessions :
          /\ EditFails(s) =>
                /\ disk'[sess[s].cur.doc] = sess[s].sidecar
                /\ db' = db
          /\ EditCommits(s) =>
                \A k \in Kinds :
                    Range(Cleaned(IF k = "genre" THEN disk'[sess[s].cur.doc].genres
                                                 ELSE disk'[sess[s].cur.doc].tags))
                      = LinkedNames(db', k, sess[s].cur.id) ]_vars

\* ------------------------------------------------------------------- C30

\* The (code, sidecar) pairs a pass that is at its commit has processed
ProcessedBy(s) ==
    IF sess[s].op = "scan"
    THEN {<<c, FirstDoc(sess[s].root, c)>> : c \in DiscoveredCodes(sess[s].root)}
    ELSE {<<sess[s].cur.code, sess[s].cur.doc>>}

\* Session s commits a sync run or the synchronization of one item
PassCommits(s) ==
    /\ sess[s].op \in {"scan", "sync_item"}
    /\ sess[s].pc = "commit"
    /\ sess'[s].pc = "done"

\* C30: when a pass commits that has processed a catalogued code whose
\* sidecar does not parse, the item keeps the title and the description
\* it had and has no genre and no tag link left.
C30_UnparsableRescan ==
    [][ \A s \in Sessions :
          PassCommits(s) =>
              \A p \in ProcessedBy(s) :
                  \A r \in db.items :
                      (r.code = p[1] /\ ~DocInfo[p[2]].parses) =>
                          \E q \in db'.items :
                              /\ q.id = r.id /\ q.code = r.code
                              /\ q.nfo_path = p[2]
                              /\ q.title = r.title
                              /\ q.description = r.description
                              /\ \A k \in Kinds : LinkedTo(db', k, q.id) = {} ]_vars

\* C30 witness: item B was synchronized from r1/B.nfo (title TB, genre
\* g1); a sync run over r4, where B.nfo does not parse, has committed: B
\* has the path of that sidecar, its title, and no link.
C30_Witness ==
    \E s \in Sessions :
        /\ sess[s].op = "scan" /\ sess[s].pc = "done" /\ sess[s].root = "r4"
        /\ sess[s].result = CountResult(2)
        /\ \E b \in db.items :
              /\ b.code = "B" /\ b.nfo_path = "r4/B.nfo" /\ b.title = "TB"
              /\ b.last_scanned_at = sess[s].now
              /\ \A k \in Kinds : LinkedTo(db, k, b.id) = {}

=============================================================================
